---- MODULE Spec2Model ----
(***************************************************************************)
(* The coordination server of the WireGuard mesh VPN (pkg/server), its IP  *)
(* allocator (pkg/network) and its peer store, and the agents (pkg/client) *)
(* with the WireGuard devices of their hosts (pkg/wireguard), as a state   *)
(* machine.  Spec is the coordinator under arbitrary requests; MeshSpec is *)
(* the coordinator with two agents, LiveSpec the same with the agents'     *)
(* goroutines scheduled fairly.  IpamSpec and StoreSpec are the allocator  *)
(* and the peer store alone, under every sequence of calls of their        *)
(* exported methods (ReleaseIP, IsAllocated and DeletePeer have no caller  *)
(* in the program).  TaskSpec is the coordinator with two agents whose     *)
(* DataPlane and HTTP calls take time, so that the goroutines of an agent  *)
(* interleave inside them, and TaskLiveSpec the same with the signal       *)
(* handler and main scheduled fairly.  SyncSpec is syncPeers of one agent  *)
(* over the peer lists a coordinator may answer, LoadSpec is NewServer     *)
(* over the snapshots it may find.                                         *)
(*                                                                         *)
(* Conventions                                                             *)
(*  - An IPv4 address is the tuple of its four bytes (10.100.0.1 is        *)
(*    <<10, 100, 0, 1>>); the dotted text net.IP.String prints and         *)
(*    net.ParseIP reads back is a bijection on these tuples.               *)
(*  - A peer id "peer-<n>" is the clock reading n it was minted from; the  *)
(*    id 0 stands for the empty string.                                    *)
(*  - Time is counted in minutes (HeartbeatTimeout = 2 min, CleanupInterval*)
(*    = 1 min).  Handlers run under the registry mutex and are atomic.     *)
(*  - A public key string is described by what base64 decoding looks at:   *)
(*    its number of characters, its number of trailing '=' and whether all *)
(*    its characters are in the alphabet; tag tells apart different keys   *)
(*    of the same shape.                                                   *)
(***************************************************************************)
EXTENDS Integers, Sequences, FiniteSets, TLC

VARIABLES
    scope,        \* what the exploration lets the environment do (fixed)
    network,      \* IPAllocator.network: [ip, ones], fixed at construction
    allocated,    \* IPAllocator.allocated: the set of addresses marked true
    nextIP,       \* IPAllocator.nextIP: the scan cursor
    peers,        \* Server.peers: id -> Peer
    peersByKey,   \* Server.peersByKey: public key -> id
    store,        \* the peer store file: a JSON array of peer objects
    storeTorn,    \* the file holds a torn (unparsable) write
    now,          \* the wall clock, in minutes
    nano,         \* the latest clock reading an id was minted from
    sameInstant,  \* the clock may still read the value of the latest mint
    nextSweep,    \* the time the cleanup ticker fires next
    startedAt,    \* the time NewServer ran for this incarnation
    clients,      \* each agent's Client and the positions of its goroutines
    devices       \* each agent host's WireGuard device and its peers

vars == <<scope, network, allocated, nextIP, peers, peersByKey, store,
          storeTorn, now, nano, sameInstant, nextSweep, startedAt,
          clients, devices>>

-----------------------------------------------------------------------------
(* Bounds of the exploration *)

MaxTime == 3
MaxMint == 2

(* Program constants *)

HeartbeatTimeout == 2
CleanupInterval == 1
KeySize == 32

-----------------------------------------------------------------------------
(* Finite maps *)

Put(f, k, v) == [x \in (DOMAIN f) \cup {k} |-> IF x = k THEN v ELSE f[x]]

EmptyMap == [x \in {} |-> 0]

-----------------------------------------------------------------------------
(* pkg/crypto: public keys on the wire *)

\* base64.StdEncoding.DecodeString: the text must be whole 4-character
\* groups over the alphabet, the last one padded with at most two '='.
DecodeString(s) ==
    IF ~s.alphabet \/ s.chars % 4 # 0 \/ s.pad > 2 \/ s.pad > s.chars
    THEN [err |-> TRUE, len |-> 0]
    ELSE [err |-> FALSE, len |-> 3 * (s.chars \div 4) - s.pad]

ParsePublicKey(key) ==
    LET decoded == DecodeString(key)
    IN  IF decoded.err THEN [err |-> TRUE]
        ELSE IF decoded.len # KeySize THEN [err |-> TRUE]
        ELSE [err |-> FALSE]

\* PublicKeyToString of a generated key pair: 32 bytes print as 44
\* characters, the last one '='.
PublicKeyToString(i) == [tag |-> i, chars |-> 44, pad |-> 1, alphabet |-> TRUE]

EmptyKey == [tag |-> 0, chars |-> 0, pad |-> 0, alphabet |-> TRUE]

\* The public_key values a register request may carry.
Keys == {PublicKeyToString(1), PublicKeyToString(2), EmptyKey}

-----------------------------------------------------------------------------
(* pkg/network: IPAllocator *)

Pow2(n) == 2 ^ n

Min(a, b) == IF a < b THEN a ELSE b
Max(a, b) == IF a > b THEN a ELSE b

\* The number of mask bits that fall into byte i (1..4) of a /ones mask.
MaskBits(ones, i) == Min(8, Max(0, ones - 8 * (i - 1)))

\* b & mask[i] and b | ^mask[i] for one byte.
AndMask(b, ones, i) == b - (b % Pow2(8 - MaskBits(ones, i)))
OrNotMask(b, ones, i) == AndMask(b, ones, i) + Pow2(8 - MaskBits(ones, i)) - 1

\* net.IPNet.Contains: every byte of the address, under the mask, is the
\* network's byte.
Contains(net, ip) == \A i \in 1..4 : AndMask(ip[i], net.ones, i) = net.ip[i]

\* incrementIP: from the last byte up, add one and stop at the first byte
\* that does not wrap to zero.
RECURSIVE incrementFrom(_, _)
incrementFrom(ip, i) ==
    IF i = 0 THEN ip
    ELSE LET b == (ip[i] + 1) % 256
         IN  IF b > 0 THEN [ip EXCEPT ![i] = b]
             ELSE incrementFrom([ip EXCEPT ![i] = b], i - 1)

incrementIP(ip) == incrementFrom(ip, 4)

isBroadcastNever(ip, net) == FALSE

\* isBroadcast: the address equals network.IP | ^network.Mask.
isBroadcast(ip, net) == ip = [i \in 1..4 |-> OrNotMask(net.ip[i], net.ones, i)]

NewIPAllocatorSkipping(net) ==
    [network |-> net, allocated |-> {}, nextIP |-> incrementIP(incrementIP(net.ip))]

\* NewIPAllocator: nothing allocated, the cursor one past the network address.
NewIPAllocator(net) ==
    [network |-> net, allocated |-> {}, nextIP |-> incrementIP(net.ip)]

\* AllocateIP: scan from the cursor until it leaves the network.
RECURSIVE AllocateIP(_, _, _)
AllocateIP(net, alloc, next) ==
    IF ~Contains(net, next)
    THEN [err |-> TRUE, ip |-> <<0, 0, 0, 0>>, allocated |-> alloc, nextIP |-> next]
    ELSE IF isBroadcast(next, net)
         THEN AllocateIP(net, alloc, incrementIP(next))
         ELSE IF next \notin alloc
              THEN [err |-> FALSE, ip |-> next,
                    allocated |-> alloc \cup {next},
                    nextIP |-> incrementIP(next)]
              ELSE AllocateIP(net, alloc, incrementIP(next))

AllocateSpecificIPAgain(net, alloc, ip) ==
    IF ~Contains(net, ip) THEN [err |-> TRUE, allocated |-> alloc]
    ELSE [err |-> FALSE, allocated |-> alloc \cup {ip}]

\* AllocateSpecificIP: mark the given address if it is in the network and free.
AllocateSpecificIP(net, alloc, ip) ==
    IF ~Contains(net, ip) THEN [err |-> TRUE, allocated |-> alloc]
    ELSE IF ip \in alloc THEN [err |-> TRUE, allocated |-> alloc]
    ELSE [err |-> FALSE, allocated |-> alloc \cup {ip}]

\* The configured networks explored: 10.100.0.0/30 (two usable addresses)
\* and 10.100.0.0/31 (none).
Networks == {[ip |-> <<10, 100, 0, 0>>, ones |-> 30],
             [ip |-> <<10, 100, 0, 0>>, ones |-> 31]}

-----------------------------------------------------------------------------
(* pkg/protocol and the peer store *)

\* The empty string where an address is expected.
NoIP == <<>>

HostCIDRNet(ip) == [ip |-> ip, ones |-> 24]

\* ip + "/32" and "0.0.0.0/0"
HostCIDR(ip) == [ip |-> ip, ones |-> 32]
DefaultRoute == [ip |-> <<0, 0, 0, 0>>, ones |-> 0]

\* json.Marshal of a protocol.Peer: every field under its tag, the endpoint
\* left out when it is empty (omitempty).
MarshalPeer(p) ==
    IF p.endpoint = ""
    THEN [id |-> p.id, public_key |-> p.public_key, virtual_ip |-> p.virtual_ip,
          hostname |-> p.hostname, os |-> p.os, allowed_ips |-> p.allowed_ips,
          exit_node |-> p.exit_node, last_heartbeat |-> p.last_heartbeat,
          online |-> p.online]
    ELSE [id |-> p.id, public_key |-> p.public_key, virtual_ip |-> p.virtual_ip,
          endpoint |-> p.endpoint,
          hostname |-> p.hostname, os |-> p.os, allowed_ips |-> p.allowed_ips,
          exit_node |-> p.exit_node, last_heartbeat |-> p.last_heartbeat,
          online |-> p.online]

\* json.Unmarshal into a protocol.Peer: a field the object lacks keeps its
\* zero value.
UnmarshalPeer(o) ==
    [id |-> o.id, public_key |-> o.public_key, virtual_ip |-> o.virtual_ip,
     endpoint |-> IF "endpoint" \in DOMAIN o THEN o.endpoint ELSE "",
     hostname |-> o.hostname, os |-> o.os, allowed_ips |-> o.allowed_ips,
     exit_node |-> o.exit_node, last_heartbeat |-> o.last_heartbeat,
     online |-> o.online]

\* loadPeersUnlocked: a missing file reads as no peers (the empty array
\* stands for it too), a file that does not parse is an error.
loadPeersUnlocked(file, torn) ==
    IF torn THEN [err |-> TRUE, peers |-> <<>>]
    ELSE [err |-> FALSE, peers |-> [i \in 1..Len(file) |-> UnmarshalPeer(file[i])]]

\* savePeersUnlocked: the whole array, written over the file.
savePeersUnlocked(list) == [i \in 1..Len(list) |-> MarshalPeer(list[i])]

SavePeerAppending(file, torn, peer) ==
    LET loaded == loadPeersUnlocked(file, torn)
    IN  IF loaded.err THEN [err |-> TRUE, file |-> file]
        ELSE [err |-> FALSE,
              file |-> savePeersUnlocked(Append(loaded.peers, peer))]

\* SavePeer: replace the first stored peer with the same ID, or append.
SavePeer(file, torn, peer) ==
    LET loaded == loadPeersUnlocked(file, torn)
        same   == {i \in 1..Len(loaded.peers) : loaded.peers[i].id = peer.id}
    IN  IF loaded.err THEN [err |-> TRUE, file |-> file]
        ELSE IF same # {}
             THEN LET i == CHOOSE k \in same : \A m \in same : k <= m
                  IN  [err |-> FALSE,
                       file |-> savePeersUnlocked([loaded.peers EXCEPT ![i] = peer])]
             ELSE [err |-> FALSE,
                   file |-> savePeersUnlocked(Append(loaded.peers, peer))]

-----------------------------------------------------------------------------
(* pkg/server: construction *)

RECURSIVE loadLoopStopping(_, _, _, _, _)
loadLoopStopping(list, net, ps, byKey, alloc) ==
    IF list = <<>> THEN [peers |-> ps, peersByKey |-> byKey, allocated |-> alloc]
    ELSE LET peer == Head(list)
             r    == AllocateSpecificIP(net, alloc, peer.virtual_ip)
         IN  IF r.err
             THEN [peers |-> Put(ps, peer.id, peer),
                   peersByKey |-> Put(byKey, peer.public_key, peer.id),
                   allocated |-> alloc]
             ELSE loadLoopStopping(Tail(list), net,
                                   Put(ps, peer.id, peer),
                                   Put(byKey, peer.public_key, peer.id),
                                   r.allocated)

\* loadPeersFromStore's loop: each stored peer enters both maps and its
\* address is marked; a refused address is logged and the loop goes on.
RECURSIVE loadLoop(_, _, _, _, _)
loadLoop(list, net, ps, byKey, alloc) ==
    IF list = <<>> THEN [peers |-> ps, peersByKey |-> byKey, allocated |-> alloc]
    ELSE LET peer == Head(list)
         IN  loadLoop(Tail(list), net,
                      Put(ps, peer.id, peer),
                      Put(byKey, peer.public_key, peer.id),
                      AllocateSpecificIP(net, alloc, peer.virtual_ip).allocated)

\* loadPeersFromStore: a store that cannot be read leaves the registry empty
\* (NewServer logs the error and goes on).
loadPeersFromStore(file, torn, net) ==
    LET loaded == loadPeersUnlocked(file, torn)
    IN  IF loaded.err
        THEN [peers |-> EmptyMap, peersByKey |-> EmptyMap, allocated |-> {}]
        ELSE loadLoop(loaded.peers, net, EmptyMap, EmptyMap, {})

\* What the exploration lets the environment do: how far the clock runs and
\* which endpoints agents report.  One scope follows the clock past the
\* heartbeat timeout, the other varies the endpoints within one cleanup
\* interval.
Endpoints == {"", "198.51.100.7:51820"}

Scopes == {[horizon |-> MaxTime, endpoints |-> {""}],
           [horizon |-> CleanupInterval, endpoints |-> Endpoints]}

\* The agents: agent a holds the key pair whose public key is
\* PublicKeyToString(a).
Agents == {1, 2}

\* NewClient: nothing registered, no interface, stopChan open, no goroutine
\* started.  pc is the position of Start, stopping that of the signal
\* handler's Stop ("none", "closed", then "destroyed" or "stopped" as Destroy
\* was called or not); peerList is the list the running syncPeers decoded and
\* todo what its loop has still to range over.
NewClient ==
    [pc |-> "idle", peerID |-> 0, assignedIP |-> NoIP, wgInterface |-> FALSE,
     stopping |-> "none", heartbeat |-> "off", peerSync |-> "off",
     peerList |-> {}, todo |-> {}]

\* A host without the WireGuard device.
NoDevice == [state |-> "absent", peers |-> EmptyMap]

agentVars == <<clients, devices>>

Init ==
    /\ scope \in Scopes
    /\ clients = [a \in Agents |-> NewClient]
    /\ devices = [a \in Agents |-> NoDevice]
    /\ network \in Networks
    /\ allocated = NewIPAllocator(network).allocated
    /\ nextIP = NewIPAllocator(network).nextIP
    /\ peers = EmptyMap
    /\ peersByKey = EmptyMap
    /\ store = <<>>
    /\ storeTorn = FALSE
    /\ now = 0
    /\ nano = 0
    /\ sameInstant = FALSE
    /\ nextSweep = CleanupInterval
    /\ startedAt = 0

registryVars == <<peers, peersByKey>>
ipamVars == <<network, allocated, nextIP>>
storeVars == <<store, storeTorn>>
clockVars == <<now, nextSweep, startedAt>>
mintVars == <<nano, sameInstant>>

\* NewServer on the store as it stands: a fresh allocator, the registry
\* loaded from the store, the cleanup ticker started.
NewServer(torn) ==
    LET loaded == loadPeersFromStore(store, torn, network)
    IN  /\ allocated' = loaded.allocated
        /\ nextIP' = NewIPAllocator(network).nextIP
        /\ peers' = loaded.peers
        /\ peersByKey' = loaded.peersByKey
        /\ storeTorn' = torn
        /\ store' = IF torn THEN <<>> ELSE store
        /\ nextSweep' = now + CleanupInterval
        /\ startedAt' = now
        /\ sameInstant' = FALSE
        /\ UNCHANGED <<scope, network, now, nano, agentVars>>

\* The process is stopped between two writes of the store and started again.
Restart == NewServer(storeTorn)

\* The process is stopped (main's signal handler calls os.Exit) while a
\* handler is inside os.WriteFile, which has truncated the file and not yet
\* written all of it; then it is started again.  (What is left of the file
\* does not parse; its bytes are not kept.)
RestartTornWrite ==
    /\ ~storeTorn
    /\ NewServer(TRUE)

-----------------------------------------------------------------------------
(* pkg/server: the request handlers *)

\* What the HTTP layer may deliver.
Methods == {"GET", "POST"}

\* An agent sends its own os.Hostname(), runtime.GOOS and configured
\* ExitNode with its key.
HostnameOf(key) == IF key.tag = 1 THEN "alpha" ELSE "beta"
OSOf(key) == IF key.tag = 1 THEN "linux" ELSE "windows"
ExitNodeOf(key) == key.tag = 2

RegisterRequests ==
    {[public_key |-> k, hostname |-> HostnameOf(k), os |-> OSOf(k),
      endpoint |-> e, exit_node |-> ExitNodeOf(k)] :
        k \in Keys, e \in scope.endpoints}

\* The peer_id values a request may carry: 0 is the empty string, and the
\* last one is an id the coordinator never minted.
PeerIDs == 0..(MaxMint + 1)

HeartbeatRequests == [peer_id : PeerIDs, endpoint : scope.endpoints]

\* What reaches a handler: the method, whether the body parses, the request.
\* A request that is turned away is never looked at, so one stands for all.
Deliveries(requests) ==
    {<<"POST", TRUE, r>> : r \in requests}
        \cup {<<m, ok, CHOOSE r \in requests : TRUE>> :
                 m \in Methods, ok \in BOOLEAN}

\* What a handler writes to its caller; the fields it does not set are zero.
Response(status) ==
    [status |-> status, success |-> FALSE, error |-> "",
     peer_id |-> 0, assigned_ip |-> NoIP, peers |-> {}]

\* What a handler does: its response and the state it leaves.
Outcome(r, ps, byKey, alloc, next, file, n, same) ==
    [resp |-> r, peers |-> ps, peersByKey |-> byKey, allocated |-> alloc,
     nextIP |-> next, store |-> file, nano |-> n, sameInstant |-> same]

\* A handler that answers and touches nothing.
Answer(r) ==
    Outcome(r, peers, peersByKey, allocated, nextIP, store, nano, sameInstant)

Apply(out) ==
    /\ peers' = out.peers
    /\ peersByKey' = out.peersByKey
    /\ allocated' = out.allocated
    /\ nextIP' = out.nextIP
    /\ store' = out.store
    /\ nano' = out.nano
    /\ sameInstant' = out.sameInstant
    /\ UNCHANGED <<scope, network, storeTorn, clockVars>>

KeyExistsNever(key) == FALSE

\* peerID, exists := s.peersByKey[req.PublicKey]
KeyExists(key) == key \in DOMAIN peersByKey

\* generatePeerID: "peer-" and time.Now().UnixNano().  The clock does not go
\* back, and as long as it has not been seen to advance it may read the value
\* the latest id was minted from.
generatePeerID ==
    {n \in {nano, nano + 1} : n >= 1 /\ n <= MaxMint /\ (n = nano => sameInstant)}

RegisterExistingKeepingEndpoint(req) ==
    LET peerID == peersByKey[req.public_key]
        old    == peers[peerID]
        peer   == [old EXCEPT !.hostname = req.hostname,
                               !.os = req.os,
                               !.endpoint = IF req.endpoint # "" THEN req.endpoint ELSE @,
                               !.last_heartbeat = now,
                               !.online = TRUE]
    IN  {Outcome([Response(200) EXCEPT !.success = TRUE,
                                       !.assigned_ip = old.virtual_ip,
                                       !.peer_id = old.id],
                 [peers EXCEPT ![peerID] = peer], peersByKey,
                 allocated, nextIP,
                 SavePeer(store, storeTorn, peer).file,
                 nano, sameInstant)}

\* handleRegister, the branch of a public key already in peersByKey.
RegisterExisting(req) ==
    LET peerID == peersByKey[req.public_key]
        old    == peers[peerID]
        peer   == [old EXCEPT !.hostname = req.hostname,
                               !.os = req.os,
                               !.endpoint = req.endpoint,
                               !.last_heartbeat = now,
                               !.online = TRUE]
    IN  {Outcome([Response(200) EXCEPT !.success = TRUE,
                                       !.assigned_ip = old.virtual_ip,
                                       !.peer_id = old.id],
                 [peers EXCEPT ![peerID] = peer], peersByKey,
                 allocated, nextIP,
                 SavePeer(store, storeTorn, peer).file,
                 nano, sameInstant)}

\* handleRegister, the branch of a new public key.
RegisterNew(req) ==
    LET a == AllocateIP(network, allocated, nextIP)
    IN  IF a.err
        THEN {Outcome([Response(200) EXCEPT
                          !.error = "no more IP addresses available"],
                      peers, peersByKey, allocated, a.nextIP, store,
                      nano, sameInstant)}
        ELSE {LET peer == [id |-> peerID,
                           public_key |-> req.public_key,
                           virtual_ip |-> a.ip,
                           endpoint |-> req.endpoint,
                           hostname |-> req.hostname,
                           os |-> req.os,
                           allowed_ips |-> IF req.exit_node
                                           THEN <<HostCIDR(a.ip), DefaultRoute>>
                                           ELSE <<HostCIDR(a.ip)>>,
                           exit_node |-> req.exit_node,
                           last_heartbeat |-> now,
                           online |-> TRUE]
              IN  Outcome([Response(200) EXCEPT !.success = TRUE,
                                                !.assigned_ip = a.ip,
                                                !.peer_id = peerID],
                          Put(peers, peerID, peer),
                          Put(peersByKey, req.public_key, peerID),
                          a.allocated, a.nextIP,
                          SavePeer(store, storeTorn, peer).file,
                          peerID, TRUE)
              : peerID \in generatePeerID}

\* handleRegister: the outcomes it may have (one per id it may mint).
handleRegister(method, bodyOk, req) ==
    IF method # "POST" THEN {Answer(Response(405))}
    ELSE IF ~bodyOk THEN {Answer(Response(400))}
    ELSE IF KeyExists(req.public_key) THEN RegisterExisting(req)
    ELSE RegisterNew(req)

handleHeartbeatClearing(method, bodyOk, req) ==
    IF method # "POST" THEN Answer(Response(405))
    ELSE IF ~bodyOk THEN Answer(Response(400))
    ELSE IF req.peer_id \notin DOMAIN peers
    THEN Answer([Response(200) EXCEPT !.error = "Peer not found"])
    ELSE LET peer == [peers[req.peer_id] EXCEPT
                         !.last_heartbeat = now,
                         !.online = TRUE,
                         !.endpoint = req.endpoint]
         IN  Outcome([Response(200) EXCEPT !.success = TRUE],
                     [peers EXCEPT ![req.peer_id] = peer], peersByKey,
                     allocated, nextIP,
                     SavePeer(store, storeTorn, peer).file,
                     nano, sameInstant)

handleHeartbeat(method, bodyOk, req) ==
    IF method # "POST" THEN Answer(Response(405))
    ELSE IF ~bodyOk THEN Answer(Response(400))
    ELSE IF req.peer_id \notin DOMAIN peers
    THEN Answer([Response(200) EXCEPT !.error = "Peer not found"])
    ELSE LET peer == [peers[req.peer_id] EXCEPT
                         !.last_heartbeat = now,
                         !.online = TRUE,
                         !.endpoint = IF req.endpoint # "" THEN req.endpoint ELSE @]
         IN  Outcome([Response(200) EXCEPT !.success = TRUE],
                     [peers EXCEPT ![req.peer_id] = peer], peersByKey,
                     allocated, nextIP,
                     SavePeer(store, storeTorn, peer).file,
                     nano, sameInstant)

ListedWithCaller(peerID) == {peers[id] : id \in DOMAIN peers}

\* handlePeerList's loop: every peer of the map but the one asking.
Listed(peerID) == {peers[id] : id \in (DOMAIN peers) \ {peerID}}

handlePeerListOnlineOnly(method, peerID) ==
    IF method # "GET" THEN Answer(Response(405))
    ELSE IF peerID = 0 THEN Answer(Response(400))
    ELSE IF peerID \notin DOMAIN peers \/ ~peers[peerID].online
    THEN Answer(Response(404))
    ELSE Answer([Response(200) EXCEPT !.peers = Listed(peerID)])

handlePeerList(method, peerID) ==
    IF method # "GET" THEN Answer(Response(405))
    ELSE IF peerID = 0 THEN Answer(Response(400))
    ELSE IF peerID \notin DOMAIN peers THEN Answer(Response(404))
    ELSE Answer([Response(200) EXCEPT !.peers = Listed(peerID)])

-----------------------------------------------------------------------------
(* pkg/server: the cleanup routine and the clock *)

StaleAtTimeout(peer, t) == t - peer.last_heartbeat >= HeartbeatTimeout

\* now.Sub(peer.LastHeartbeat) > HeartbeatTimeout
Stale(peer, t) == t - peer.last_heartbeat > HeartbeatTimeout

\* The SavePeer calls of one sweep, lowest id first.  (Go visits the map in
\* no fixed order; each call replaces a record the file already holds, or
\* fails, so the order does not show in the file.)
RECURSIVE saveEach(_, _, _, _)
saveEach(file, torn, ps, ids) ==
    IF ids = {} THEN file
    ELSE LET id == CHOOSE x \in ids : \A y \in ids : x <= y
         IN  saveEach(SavePeer(file, torn, ps[id]).file, torn, ps, ids \ {id})

\* The peers one round of cleanupRoutine marks offline.
Expired == {id \in DOMAIN peers : Stale(peers[id], now) /\ peers[id].online}

SweptRefreshing ==
    [id \in DOMAIN peers |->
        IF id \in Expired
        THEN [peers[id] EXCEPT !.online = FALSE, !.last_heartbeat = now]
        ELSE peers[id]]

Swept == [id \in DOMAIN peers |->
             IF id \in Expired THEN [peers[id] EXCEPT !.online = FALSE]
             ELSE peers[id]]

\* One round of cleanupRoutine, run when its ticker fires.
cleanupRoutine ==
    /\ now >= nextSweep
    /\ peers' = Swept
    /\ store' = saveEach(store, storeTorn, Swept, Expired)
    /\ nextSweep' = nextSweep + CleanupInterval
    /\ UNCHANGED <<scope, peersByKey, ipamVars, storeTorn, now, startedAt,
                   mintVars, agentVars>>

\* A minute passes.  The cleanup round due at the current minute runs before
\* the clock moves on.
Tick ==
    /\ now < scope.horizon
    /\ now < nextSweep
    /\ now' = now + 1
    /\ sameInstant' = FALSE
    /\ UNCHANGED <<scope, registryVars, ipamVars, storeVars, nano, nextSweep,
                   startedAt, agentVars>>

-----------------------------------------------------------------------------

\* A request from anywhere on the network, the agents left aside.
Register ==
    /\ \E d \in Deliveries(RegisterRequests) :
           \E out \in handleRegister(d[1], d[2], d[3]) : Apply(out)
    /\ UNCHANGED agentVars

Heartbeat ==
    /\ \E d \in Deliveries(HeartbeatRequests) :
           Apply(handleHeartbeat(d[1], d[2], d[3]))
    /\ UNCHANGED agentVars

PeerList ==
    /\ \E m \in Methods, id \in PeerIDs : Apply(handlePeerList(m, id))
    /\ UNCHANGED agentVars

Next ==
    \/ Register
    \/ Heartbeat
    \/ PeerList
    \/ cleanupRoutine
    \/ Tick
    \/ Restart
    \/ RestartTornWrite

Spec == Init /\ [][Next]_vars

-----------------------------------------------------------------------------
(* pkg/wireguard: the WireGuard device of an agent's host *)

\* PersistentKeepalive of every peer the client configures, in seconds.
KeepAlive == 25

\* wgtypes.ParseKey: the key text must decode to exactly 32 bytes.
ParseKey(key) == ParsePublicKey(key)

PeerConfigHostOnly(peer) ==
    [PublicKey |-> peer.public_key, Endpoint |-> peer.endpoint,
     AllowedIPs |-> SubSeq(peer.allowed_ips, 1, 1), KeepAlive |-> KeepAlive]

\* The wireguard.PeerConfig syncPeers builds from a listed peer.
PeerConfig(peer) ==
    [PublicKey |-> peer.public_key, Endpoint |-> peer.endpoint,
     AllowedIPs |-> peer.allowed_ips, KeepAlive |-> KeepAlive]

\* The elements of a list.
Range(list) == {list[i] : i \in DOMAIN list}

\* Interface.AddPeer: one wgtypes.PeerConfig handed to ConfigureDevice with
\* neither ReplacePeers nor ReplaceAllowedIPs set.  The device keeps its
\* other peers; the peer's endpoint is set only when one is given (a nil
\* Endpoint leaves it), its allowed IPs are added to those it has, its
\* keepalive is set.  A key that does not parse, or a device that is gone,
\* is an error and changes nothing.
AddPeer(dev, cfg) ==
    IF ParseKey(cfg.PublicKey).err \/ dev.state = "absent" THEN dev
    ELSE LET known == cfg.PublicKey \in DOMAIN dev.peers
             old   == IF known THEN dev.peers[cfg.PublicKey]
                      ELSE [endpoint |-> "", allowed_ips |-> {}, keepalive |-> 0]
         IN  [dev EXCEPT !.peers =
                 Put(dev.peers, cfg.PublicKey,
                     [endpoint |-> IF cfg.Endpoint # "" THEN cfg.Endpoint
                                   ELSE old.endpoint,
                      allowed_ips |-> old.allowed_ips \cup Range(cfg.AllowedIPs),
                      keepalive |-> cfg.KeepAlive])]

\* Interface.RemovePeer: the peer of that key is taken off the device.
RemovePeer(dev, publicKey) ==
    IF ParseKey(publicKey).err \/ dev.state = "absent" THEN dev
    ELSE [dev EXCEPT !.peers =
             [k \in (DOMAIN @) \ {publicKey} |-> @[k]]]

-----------------------------------------------------------------------------
(* pkg/client: the agent *)

\* detectEndpoint: the first non-loopback IPv4 address with the listen port,
\* or nothing when the host shows none.
detectEndpoint(a) == scope.endpoints

\* The request Client.register sends.
RegisterRequestOf(a, endpoint) ==
    [public_key |-> PublicKeyToString(a),
     hostname |-> HostnameOf(PublicKeyToString(a)),
     os |-> OSOf(PublicKeyToString(a)),
     endpoint |-> endpoint,
     exit_node |-> ExitNodeOf(PublicKeyToString(a))]

\* The process of agent a is running.
Alive(a) == clients[a].pc # "exited"

\* close(c.stopChan) has run.
Closed(a) == clients[a].stopping # "none"

\* sendRequest of the Register call: the answer arrives ("ok"), the request
\* is handled and its answer does not arrive ("lost"), or the request does
\* not reach the coordinator ("undelivered"); the last two make sendRequest
\* return an error, as an answer with a status other than 200 does.
Transport == IF scope.lossy THEN {"ok", "lost", "undelivered"} ELSE {"ok"}

AcceptedUnread(t, resp) == t = "ok"

\* register goes on when sendRequest returned no error and the answer says
\* success.
Accepted(t, resp) == t = "ok" /\ resp.success

\* Start, first part: register.  A failure makes Start return the error, and
\* main ends the process.
register(a) ==
    /\ clients[a].pc = "idle"
    /\ \E e \in detectEndpoint(a), t \in Transport :
           \E out \in (IF t = "undelivered" THEN {Answer(Response(0))}
                       ELSE handleRegister("POST", TRUE, RegisterRequestOf(a, e))) :
               /\ Apply(out)
               /\ clients' = [clients EXCEPT ![a] =
                     IF Accepted(t, out.resp)
                     THEN [@ EXCEPT !.pc = "setup",
                                    !.peerID = out.resp.peer_id,
                                    !.assignedIP = out.resp.assigned_ip]
                     ELSE [NewClient EXCEPT !.pc = "exited"]]
    /\ UNCHANGED devices

serverVars == <<scope, network, allocated, nextIP, peers, peersByKey, store,
                storeTorn, now, nano, sameInstant, nextSweep, startedAt>>

\* setupInterface: Interface.Create.  "ip link add" refuses a device that is
\* there already; Start then returns the error and main ends the process.
Create(a) ==
    /\ clients[a].pc = "setup"
    /\ IF devices[a].state = "absent"
       THEN /\ devices' = [devices EXCEPT ![a] = [@ EXCEPT !.state = "created"]]
            /\ clients' = [clients EXCEPT ![a] = [@ EXCEPT !.pc = "created"]]
       ELSE /\ clients' = [clients EXCEPT ![a] = [NewClient EXCEPT !.pc = "exited"]]
            /\ UNCHANGED devices
    /\ UNCHANGED serverVars

\* setupInterface: Interface.Configure, then c.wgInterface = wgInterface.
Configure(a) ==
    /\ clients[a].pc = "created"
    /\ devices' = [devices EXCEPT ![a] = [@ EXCEPT !.state = "configured"]]
    /\ clients' = [clients EXCEPT ![a] =
                      [@ EXCEPT !.pc = "configured", !.wgInterface = TRUE]]
    /\ UNCHANGED serverVars

\* syncPeers is run by setupInterface (once, before the goroutines start) and
\* by peerSyncRoutine (on its ticker).
FetchingOnce(a) == clients[a].pc = "configured"

Fetching(a) == clients[a].pc = "configured" \/ clients[a].peerSync = "ticking"
Applying(a) == clients[a].pc = "initsync" \/ clients[a].peerSync = "applying"

\* syncPeers has returned: setupInterface returns and Start launches the two
\* goroutines, or peerSyncRoutine goes back to its select.
Returned(c) ==
    IF c.pc \in {"configured", "initsync"}
    THEN [c EXCEPT !.pc = "waiting", !.heartbeat = "ticking",
                   !.peerSync = "ticking",
                   !.peerList = {}, !.todo = {}]
    ELSE [c EXCEPT !.peerSync = "ticking", !.peerList = {}, !.todo = {}]

\* The body of a peer list answer as the client decodes it.
Decoded(list) == {UnmarshalPeer(MarshalPeer(p)) : p \in list}

\* syncPeers, the GET: an answer other than 200 ends the call with an error
\* (logged); otherwise the loop starts on the decoded list.
syncPeersFetch(a) ==
    /\ Alive(a)
    /\ Fetching(a)
    /\ LET out  == handlePeerList("GET", clients[a].peerID)
           list == Decoded(out.resp.peers)
       IN  /\ Apply(out)
           /\ clients' = [clients EXCEPT ![a] =
                 IF out.resp.status # 200 \/ list = {}
                 THEN Returned(@)
                 ELSE IF @.pc = "configured"
                      THEN [@ EXCEPT !.pc = "initsync",
                                     !.peerList = list, !.todo = list]
                      ELSE [@ EXCEPT !.peerSync = "applying",
                                     !.peerList = list, !.todo = list]]
    /\ UNCHANGED devices

syncPeerRemoving(dev, peer) ==
    IF peer.online THEN AddPeer(dev, PeerConfig(peer))
    ELSE RemovePeer(dev, peer.public_key)

\* The body of the loop of syncPeers: a peer that is not online is skipped,
\* any other is handed to AddPeer (an error is logged and the loop goes on).
syncPeer(dev, peer) ==
    IF peer.online THEN AddPeer(dev, PeerConfig(peer)) ELSE dev

\* syncPeers, one round of the loop (the list comes in the order Go ranged
\* over the server's map): a peer that is not online is skipped, any other
\* is handed to AddPeer.  After the last one syncPeers returns.
syncPeersApply(a) ==
    /\ Alive(a)
    /\ Applying(a)
    /\ \E peer \in clients[a].todo :
           LET rest == clients[a].todo \ {peer}
           IN  /\ devices' = [devices EXCEPT ![a] = syncPeer(@, peer)]
               /\ clients' = [clients EXCEPT ![a] =
                     IF rest = {} THEN Returned(@)
                     ELSE [@ EXCEPT !.todo = rest]]
    /\ UNCHANGED serverVars

\* heartbeatRoutine on its ticker: sendHeartbeat.  A refusal is logged.
sendHeartbeat(a) ==
    /\ Alive(a)
    /\ clients[a].heartbeat = "ticking"
    /\ \E e \in detectEndpoint(a) :
           \E out \in {handleHeartbeat("POST", TRUE,
                                       [peer_id |-> clients[a].peerID,
                                        endpoint |-> e])} :
               Apply(out)
    /\ UNCHANGED agentVars

\* heartbeatRoutine and peerSyncRoutine: the stopChan case of the select.
heartbeatRoutineReturn(a) ==
    /\ Alive(a)
    /\ Closed(a)
    /\ clients[a].heartbeat = "ticking"
    /\ clients' = [clients EXCEPT ![a] = [@ EXCEPT !.heartbeat = "returned"]]
    /\ UNCHANGED <<serverVars, devices>>

peerSyncRoutineReturn(a) ==
    /\ Alive(a)
    /\ Closed(a)
    /\ clients[a].peerSync = "ticking"
    /\ clients' = [clients EXCEPT ![a] = [@ EXCEPT !.peerSync = "returned"]]
    /\ UNCHANGED <<serverVars, devices>>

ExitJoined(a) ==
    /\ Alive(a)
    /\ clients[a].heartbeat \in {"off", "returned"}
    /\ clients[a].peerSync \in {"off", "returned"}
    /\ \/ clients[a].pc = "waiting" /\ Closed(a)
       \/ clients[a].stopping \in {"destroyed", "stopped"}
    /\ clients' = [clients EXCEPT ![a] = [NewClient EXCEPT !.pc = "exited"]]
    /\ UNCHANGED <<serverVars, devices>>

\* The process ends: main returns once Start has (stopChan closed), or the
\* signal handler calls os.Exit after Stop.  Its goroutines end with it; the
\* device stays as it is.
Exited == [NewClient EXCEPT !.pc = "exited"]

Exit(a) ==
    /\ Alive(a)
    /\ \/ clients[a].pc = "waiting" /\ Closed(a)
       \/ clients[a].stopping \in {"destroyed", "stopped"}
    /\ clients' = [clients EXCEPT ![a] = Exited]
    /\ UNCHANGED <<serverVars, devices>>

\* A signal reaches the process: Stop closes stopChan ...
StopClose(a) ==
    /\ Alive(a)
    /\ a \in scope.signals
    /\ clients[a].stopping = "none"
    /\ clients' = [clients EXCEPT ![a] = [@ EXCEPT !.stopping = "closed"]]
    /\ UNCHANGED <<serverVars, devices>>

\* What Stop may read in c.wgInterface.  setupInterface writes the field in
\* the goroutine of Start and Stop reads it in the signal handler's, with no
\* synchronisation between the two: once written, the read may still give
\* nil.
ReadInterface(a) == IF clients[a].wgInterface THEN {TRUE, FALSE} ELSE {FALSE}

\* ... and destroys the interface, if it reads c.wgInterface as set.
StopDestroy(a) ==
    /\ Alive(a)
    /\ clients[a].stopping = "closed"
    /\ \E set \in ReadInterface(a) :
           /\ devices' = [devices EXCEPT ![a] = IF set THEN NoDevice ELSE @]
           /\ clients' = [clients EXCEPT ![a] =
                 [@ EXCEPT !.stopping = IF set THEN "destroyed" ELSE "stopped"]]
    /\ UNCHANGED serverVars

\* The agent is started again on its host, with the keys of its config file.
Launch(a) ==
    /\ clients[a].pc = "exited"
    /\ scope.relaunch
    /\ clients' = [clients EXCEPT ![a] = NewClient]
    /\ UNCHANGED <<serverVars, devices>>

\* What the exploration of the mesh lets the environment do: how far the
\* clock runs, the endpoints detected, the agents that receive a signal,
\* whether agents are launched again and the coordinator restarted, whether
\* the transport may fail a Register call, and the size of the network (a /31
\* has no usable address, so every Register is refused).
MeshScopes ==
    {[horizon |-> HeartbeatTimeout + CleanupInterval, endpoints |-> {""},
      signals |-> {}, relaunch |-> FALSE, restart |-> FALSE,
      lossy |-> FALSE, ones |-> 30],
     [horizon |-> 0, endpoints |-> Endpoints,
      signals |-> {2}, relaunch |-> TRUE, restart |-> FALSE,
      lossy |-> FALSE, ones |-> 30],
     [horizon |-> 0, endpoints |-> {""},
      signals |-> {}, relaunch |-> FALSE, restart |-> TRUE,
      lossy |-> FALSE, ones |-> 30],
     [horizon |-> 0, endpoints |-> {""},
      signals |-> {}, relaunch |-> FALSE, restart |-> FALSE,
      lossy |-> TRUE, ones |-> 30],
     [horizon |-> 0, endpoints |-> {""},
      signals |-> {}, relaunch |-> FALSE, restart |-> FALSE,
      lossy |-> FALSE, ones |-> 31]}

MeshInit ==
    /\ scope \in MeshScopes
    /\ network = [ip |-> <<10, 100, 0, 0>>, ones |-> scope.ones]
    /\ allocated = NewIPAllocator(network).allocated
    /\ nextIP = NewIPAllocator(network).nextIP
    /\ peers = EmptyMap
    /\ peersByKey = EmptyMap
    /\ store = <<>>
    /\ storeTorn = FALSE
    /\ now = 0
    /\ nano = 0
    /\ sameInstant = FALSE
    /\ nextSweep = CleanupInterval
    /\ startedAt = 0
    /\ clients = [a \in Agents |-> NewClient]
    /\ devices = [a \in Agents |-> NoDevice]

\* The coordinator is stopped and started again while agents run.
CoordinatorRestart == scope.restart /\ (Restart \/ RestartTornWrite)

AgentStep(a) ==
    \/ register(a)
    \/ Create(a)
    \/ Configure(a)
    \/ syncPeersFetch(a)
    \/ syncPeersApply(a)
    \/ sendHeartbeat(a)
    \/ heartbeatRoutineReturn(a)
    \/ peerSyncRoutineReturn(a)
    \/ StopClose(a)
    \/ StopDestroy(a)
    \/ Exit(a)
    \/ Launch(a)

MeshNext ==
    \/ \E a \in Agents : AgentStep(a)
    \/ cleanupRoutine
    \/ Tick
    \/ CoordinatorRestart

MeshSpec == MeshInit /\ [][MeshNext]_vars

\* The goroutine that runs Start and then peerSyncRoutine is scheduled and
\* its ticker keeps firing; so are heartbeatRoutine and its ticker.
MeshFairness ==
    \A a \in Agents :
        /\ WF_vars(register(a) \/ Create(a) \/ Configure(a)
                      \/ syncPeersFetch(a) \/ syncPeersApply(a))
        /\ WF_vars(sendHeartbeat(a))

LiveSpec == MeshSpec /\ MeshFairness

-----------------------------------------------------------------------------
(* What the coordinator would answer in the present state *)

\* The (peer_id, assigned_ip) pairs a successful Register carrying key is
\* answered with.
RegisterAnswers(key) ==
    {<<out.resp.peer_id, out.resp.assigned_ip>> :
        out \in {o \in UNION {handleRegister("POST", TRUE, r) :
                                 r \in {q \in RegisterRequests : q.public_key = key}} :
                    o.resp.success}}

\* The ids of the records that carry key.
RecordsOf(key) == {id \in DOMAIN peers : peers[id].public_key = key}

\* A step of one incarnation of the coordinator.
ServingStep == Register \/ Heartbeat \/ PeerList \/ cleanupRoutine \/ Tick

\* network.IP | ^network.Mask, and the addresses of the network other than
\* the network address and it (for a network of at most 256 addresses).
BroadcastOf(net) == [i \in 1..4 |-> OrNotMask(net.ip[i], net.ones, i)]

Usable(net) ==
    {ip \in {[net.ip EXCEPT ![4] = b] : b \in 0..255} :
        Contains(net, ip) /\ ip # net.ip /\ ip # BroadcastOf(net)}

\* The public keys and the addresses of the records in the registry.
KeysHeld == {peers[id].public_key : id \in DOMAIN peers}
AddressesHeld == {peers[id].virtual_ip : id \in DOMAIN peers}

\* The age of a record's last heartbeat.
Age(peer, t) == t - peer.last_heartbeat

\* The public keys that parse, and the records that carry one.
WellFormed(keys) == \A k \in keys : ~ParsePublicKey(k).err
WellFormedPeers == {id \in DOMAIN peers : ~ParsePublicKey(peers[id].public_key).err}

-----------------------------------------------------------------------------
(* Registration *)

\* C1: Registration idempotence.  Across the Register, Heartbeat and sweeper
\* steps of one incarnation, a public key that has been registered keeps
\* being answered the same (peer_id, assigned_ip) pair by Register, and the
\* registry holds exactly one record for it.
\* Refuted: a second key registering at the clock reading of the first is
\* given the first one's id and takes over its record.
RegistrationIdempotent ==
    [][ServingStep =>
          \A key \in {k \in DOMAIN peersByKey : ~ParsePublicKey(k).err} :
              /\ key \in DOMAIN peersByKey'
              /\ RegisterAnswers(key)' = RegisterAnswers(key)
              /\ Cardinality(RecordsOf(key)') = 1]_vars

\* C2: in every reachable state no two peer records carry the same
\* public_key.
UniquePublicKey ==
    \A i, j \in DOMAIN peers :
        peers[i].public_key = peers[j].public_key => i = j

\* C2's case: two records in a registry that was loaded from the store later
\* than the coordinator first started.
TwoKeysAfterRestart ==
    /\ Cardinality(DOMAIN peers) = 2
    /\ startedAt > 0
    /\ \A id \in DOMAIN peers : peers[id].last_heartbeat < startedAt

\* C3: in every reachable state no two peer records carry the same
\* virtual_ip, and every virtual_ip lies inside the network and is neither its
\* network address nor its broadcast address.
UsableVirtualIP ==
    \A i \in DOMAIN peers :
        /\ \A j \in DOMAIN peers : peers[i].virtual_ip = peers[j].virtual_ip => i = j
        /\ Contains(network, peers[i].virtual_ip)
        /\ peers[i].virtual_ip # network.ip
        /\ peers[i].virtual_ip # BroadcastOf(network)

\* C3's case: a /30 whose two usable addresses are both held, so that the
\* scan has met the broadcast address and left the network.
BothAddressesHeld ==
    /\ network.ones = 30
    /\ Cardinality({peers[id].virtual_ip : id \in DOMAIN peers}) = 2
    /\ ~Contains(network, nextIP)

-----------------------------------------------------------------------------
(* The peer list *)

\* C4: the peer list answered to a registered peer holds only peers whose
\* online flag is true at the time of the call.
\* Refuted: handlePeerList copies every record but the caller's.
ListOnlyOnline ==
    \A id \in WellFormedPeers :
        \A p \in handlePeerList("GET", id).resp.peers :
            p.id \in WellFormedPeers => p.online

\* C5: the peer list never holds the caller's record, an id that is not in
\* the registry is answered 404, and either way the registry, the allocated
\* set and the store are left as they were.
ListExcludesCaller ==
    \A id \in PeerIDs \ {0} :
        LET out == handlePeerList("GET", id)
        IN  /\ id \in DOMAIN peers =>
                /\ out.resp.status = 200
                /\ \A p \in out.resp.peers : p.id # id
                /\ out.resp.peers \subseteq {peers[x] : x \in DOMAIN peers}
            /\ id \notin DOMAIN peers =>
                /\ out.resp.status = 404
                /\ out.resp.peers = {}
            /\ out.peers = peers
            /\ out.peersByKey = peersByKey
            /\ out.allocated = allocated
            /\ out.store = store

\* C5's case: a caller that is answered a peer, while another id is unknown.
ListAnswersOthers ==
    /\ \E id \in DOMAIN peers : handlePeerList("GET", id).resp.peers # {}
    /\ \E id \in PeerIDs \ {0} : handlePeerList("GET", id).resp.status = 404

-----------------------------------------------------------------------------
(* Registration errors *)

\* C6: a Register whose public_key is empty or is not the base64 text of
\* exactly 32 bytes is answered success=false, creates no record and
\* allocates no address.
\* Refuted: handleRegister never parses the key.
RejectsMalformedKey ==
    \A req \in {r \in RegisterRequests : ParsePublicKey(r.public_key).err} :
        \A out \in handleRegister("POST", TRUE, req) :
            /\ ~out.resp.success
            /\ out.peers = peers
            /\ out.peersByKey = peersByKey
            /\ out.allocated = allocated

\* C7: when every usable address is held, a Register for a new key is
\* answered success=false with the exhaustion error and leaves the registry,
\* the key index and the allocated set as they were; and in a /30, once two
\* distinct (well-formed) keys are registered, the registry holds exactly two peers and a
\* third key is refused.
\* Refuted in its second part: two keys registered at one clock reading share
\* one record.
ExhaustionRefuses ==
    /\ Usable(network) \subseteq allocated =>
           \A req \in {r \in RegisterRequests : ~KeyExists(r.public_key)} :
               \A out \in handleRegister("POST", TRUE, req) :
                   /\ ~out.resp.success
                   /\ out.resp.error = "no more IP addresses available"
                   /\ out.peers = peers
                   /\ out.peersByKey = peersByKey
                   /\ out.allocated = allocated
    /\ (/\ network.ones = 30
        /\ Cardinality(DOMAIN peersByKey) = 2
        /\ WellFormed(DOMAIN peersByKey)) =>
           /\ Cardinality(DOMAIN peers) = 2
           /\ \A req \in {r \in RegisterRequests : ~KeyExists(r.public_key)} :
                  \A out \in handleRegister("POST", TRUE, req) :
                      ~out.resp.success

-----------------------------------------------------------------------------
(* Restart *)

\* C8: Restart stability.  A restart keeps every peer of the registry (one
\* of well-formed keys) with its id, public_key and virtual_ip; afterwards a
\* Register from the key of such a peer is answered as before, and a Register
\* from any other key is never given an address one of those peers held.
\* Refuted: a restart that interrupts a write of the store finds a file it
\* cannot parse and starts from an empty registry.
RestartStable ==
    [][((Restart \/ RestartTornWrite) /\ WellFormed(KeysHeld)) =>
          /\ \A id \in DOMAIN peers :
                 /\ id \in DOMAIN peers'
                 /\ peers'[id].id = peers[id].id
                 /\ peers'[id].public_key = peers[id].public_key
                 /\ peers'[id].virtual_ip = peers[id].virtual_ip
          /\ \A key \in KeysHeld : RegisterAnswers(key)' = RegisterAnswers(key)
          /\ \A key \in Keys \ KeysHeld :
                 \A a \in RegisterAnswers(key)' : a[2] \notin AddressesHeld]_vars

-----------------------------------------------------------------------------
(* Liveness of peers *)

\* C9: Liveness convergence.  A peer whose last accepted Register or
\* Heartbeat lies HeartbeatTimeout + CleanupInterval or more in the past is
\* offline in the registry (once the cleanup round due at the present minute
\* has run).
\* Refuted: a restart loads the persisted online flag as it is and starts a
\* new ticker, so the peer stays online until that ticker first fires.
OfflineWithinBound ==
    \A id \in WellFormedPeers :
        (Age(peers[id], now) >= HeartbeatTimeout + CleanupInterval /\ now < nextSweep)
            => ~peers[id].online

\* C10 as stated: at every moment a peer is online if and only if its last
\* heartbeat is at most HeartbeatTimeout old.
OnlineIffFresh ==
    \A id \in WellFormedPeers :
        peers[id].online <=> Age(peers[id], now) <= HeartbeatTimeout

\* C10 as amended: a peer is offline only if its last heartbeat is more than
\* HeartbeatTimeout old, and directly after a cleanup round a peer is online
\* if and only if its last heartbeat is at most HeartbeatTimeout old.
OnlineFollowsSweep ==
    [][/\ \A id \in DOMAIN peers' :
              ~peers'[id].online => now' - peers'[id].last_heartbeat > HeartbeatTimeout
       /\ cleanupRoutine =>
              \A id \in DOMAIN peers' :
                  peers'[id].online <=>
                      now' - peers'[id].last_heartbeat <= HeartbeatTimeout]_vars

\* C10's case: directly after a cleanup round, one peer offline, another
\* online whose last heartbeat is exactly HeartbeatTimeout old.
SweptApart ==
    /\ now < nextSweep
    /\ now >= startedAt + CleanupInterval
    /\ \E i, j \in DOMAIN peers :
           /\ ~peers[i].online
           /\ peers[j].online
           /\ Age(peers[j], now) = HeartbeatTimeout

\* C11: Peer liveness state machine.  A record's online flag goes from true
\* to false only in a cleanup round, and only when its last heartbeat is more
\* than HeartbeatTimeout old; it goes from false to true only in a Register
\* or Heartbeat step that names that peer; a cleanup round sets no peer
\* online and changes no last_heartbeat.
RegisterStepFor(id) ==
    \E d \in Deliveries(RegisterRequests) :
        \E out \in handleRegister(d[1], d[2], d[3]) :
            out.resp.success /\ out.resp.peer_id = id /\ Apply(out)

HeartbeatStepFor(id) ==
    \E d \in Deliveries(HeartbeatRequests) :
        d[3].peer_id = id /\ Apply(handleHeartbeat(d[1], d[2], d[3]))

OnlineStateMachine ==
    [][\A id \in (DOMAIN peers) \cap (DOMAIN peers') :
          /\ (peers[id].online /\ ~peers'[id].online) =>
                 /\ cleanupRoutine
                 /\ now - peers[id].last_heartbeat > HeartbeatTimeout
          /\ (~peers[id].online /\ peers'[id].online) =>
                 RegisterStepFor(id) \/ HeartbeatStepFor(id)
          /\ cleanupRoutine =>
                 /\ peers'[id].last_heartbeat = peers[id].last_heartbeat
                 /\ peers'[id].online => peers[id].online]_vars

\* C11's case: a cleanup round has marked one peer offline, and a peer is
\* online on a heartbeat later than the timeout allows a first one to be.
OfflineAndRefreshed ==
    /\ now > HeartbeatTimeout
    /\ \E i, j \in DOMAIN peers :
           /\ ~peers[i].online
           /\ peers[j].online
           /\ peers[j].last_heartbeat = now

\* C12: a Heartbeat for a known id sets last_heartbeat to now and online to
\* true, replaces the endpoint only when the request's is non-empty, and
\* leaves the record's other fields, every other record, the key index and
\* the allocated set as they were; for an unknown id it is answered
\* success=false and changes nothing in the registry or the store.
HeartbeatFrame ==
    \A req \in HeartbeatRequests :
        LET out == handleHeartbeat("POST", TRUE, req)
            id  == req.peer_id
        IN  /\ out.peersByKey = peersByKey
            /\ out.allocated = allocated
            /\ id \in DOMAIN peers =>
                   /\ out.resp.success
                   /\ DOMAIN out.peers = DOMAIN peers
                   /\ \A x \in (DOMAIN peers) \ {id} : out.peers[x] = peers[x]
                   /\ out.peers[id].last_heartbeat = now
                   /\ out.peers[id].online
                   /\ out.peers[id].endpoint =
                          IF req.endpoint = "" THEN peers[id].endpoint
                          ELSE req.endpoint
                   /\ \A f \in {"id", "public_key", "virtual_ip", "allowed_ips",
                                "exit_node", "hostname", "os"} :
                          out.peers[id][f] = peers[id][f]
            /\ id \notin DOMAIN peers =>
                   /\ ~out.resp.success
                   /\ out.resp.error = "Peer not found"
                   /\ out.peers = peers
                   /\ out.store = store

\* C12's case: a peer holding an endpoint, which an empty heartbeat endpoint
\* must leave alone, while some id is unknown.
EndpointHeld ==
    /\ \E id \in DOMAIN peers : peers[id].endpoint # ""
    /\ \E id \in PeerIDs : id \notin DOMAIN peers

-----------------------------------------------------------------------------
(* The reconciler *)

\* What the DataPlane of an agent should hold for a listed peer.
Configured(p) ==
    [endpoint |-> p.endpoint, allowed_ips |-> Range(p.allowed_ips),
     keepalive |-> KeepAlive]

\* The step of agent a in which a syncPeers call that reached its loop
\* returns, the device being there.
ReconcileCompletes(a) ==
    /\ syncPeersApply(a)
    /\ ~Applying(a)'
    /\ devices[a].state = "configured"

\* C13: Reconcile convergence.  When a reconcile cycle of an agent completes
\* (the list was fetched, every AddPeer was accepted), the agent's DataPlane
\* holds every peer of the fetched list that is online, with the endpoint
\* and the allowed IPs of the list and a keepalive of 25 s.
ReconcileConverges ==
    [][\A a \in Agents :
          ReconcileCompletes(a) =>
              \A p \in clients[a].peerList :
                  (p.online /\ WellFormed({p.public_key})) =>
                      /\ p.public_key \in DOMAIN devices'[a].peers
                      /\ devices'[a].peers[p.public_key] = Configured(p)]_vars

\* Agent a runs unsignalled and the registry holds its record under the id
\* it was given.
Running(a) == Alive(a) /\ ~Closed(a)
Registered(a) ==
    /\ clients[a].peerID \in DOMAIN peers
    /\ peers[clients[a].peerID].public_key = PublicKeyToString(a)

\* The device of agent a has the public key of agent b as a peer.
Holds(a, b) == PublicKeyToString(b) \in DOMAIN devices[a].peers
Meshed == \A a, b \in Agents : a # b => Holds(a, b)

\* C14: Eventual full mesh.  If from some point on every agent keeps running
\* and stays registered (its heartbeats and peer syncs keep being sent and
\* answered), then eventually every agent's DataPlane holds the public key
\* of every other agent.
EventualFullMesh ==
    <>[](\A a \in Agents : Running(a) /\ Registered(a)) => <>Meshed

\* Both agents run registered, past their first reconcile, and each holds
\* the other.
MeshedAfterRace ==
    /\ Meshed
    /\ \A a \in Agents : Running(a) /\ Registered(a) /\ clients[a].pc = "waiting"

\* The step of agent a in which the loop of syncPeers ends.
SyncCompletes(a) == syncPeersApply(a) /\ ~Applying(a)'

\* C15: Offline peers are removed from the active mesh.  Once the coordinator
\* has marked a peer offline, the peer sync of a running agent that fetched
\* the list after that leaves the agent's DataPlane without the public key
\* of that peer.
OfflinePeersRemoved ==
    [][\A a \in Agents :
          SyncCompletes(a) =>
              \A p \in clients[a].peerList :
                  (~p.online /\ WellFormed({p.public_key})) =>
                      p.public_key \notin DOMAIN devices'[a].peers]_vars

-----------------------------------------------------------------------------
(* The agent and the coordinator *)

\* Agent a holds a peer id from a successful Register response.
HasID(a) == clients[a].peerID # 0

\* What a peer list request of agent a would be answered now.
ListFinds(a) == handlePeerList("GET", clients[a].peerID).resp.status = 200

\* C18: Read-your-writes.  The step in which an agent receives a successful
\* Register response leaves the coordinator answering the agent's peer list
\* requests with 200, and as long as the agent keeps that id no step of the
\* same coordinator incarnation (requests of other agents, cleanup rounds)
\* makes it answer them with 404.
ReadYourWrites ==
    [][~CoordinatorRestart =>
          \A a \in Agents :
              /\ (~HasID(a) /\ HasID(a)') => ListFinds(a)'
              /\ (HasID(a) /\ ListFinds(a)
                     /\ clients'[a].peerID = clients[a].peerID) => ListFinds(a)']_vars

\* An agent's peer sync got its list although the cleanup round has marked
\* the agent's own record offline.
ListedWhileOffline ==
    \E a \in Agents :
        /\ HasID(a)
        /\ clients[a].peerSync = "applying"
        /\ clients[a].peerID \in DOMAIN peers
        /\ ~peers[clients[a].peerID].online

\* Agent a runs with an id the coordinator does not know: its heartbeats are
\* answered "Peer not found" and its peer list requests 404.
Unknown(a) == Running(a) /\ HasID(a) /\ clients[a].peerID \notin DOMAIN peers

\* Agent a has its own record in the registry, online.
Present(a) == Registered(a) /\ peers[clients[a].peerID].online

\* C19: Recovery from UnknownPeer.  An agent whose id is not in the registry
\* (the coordinator was restarted with an empty store) registers again, so
\* that eventually, if it keeps running, it is present and online in the
\* registry and its heartbeats succeed.
RecoversByRegistering ==
    \A a \in Agents : Unknown(a) ~> (Present(a) \/ ~Running(a))

-----------------------------------------------------------------------------
(* Shutdown *)

\* heartbeatRoutine or peerSyncRoutine of agent a is running (or the first
\* syncPeers of Start is).
TaskRunning(a) ==
    \/ clients[a].heartbeat = "ticking"
    \/ clients[a].peerSync \in {"ticking", "applying"}
    \/ clients[a].pc \in {"configured", "initsync"}

\* The step in which Stop calls Destroy, and a step in which syncPeers calls
\* AddPeer.
Destroys(a) == StopDestroy(a) /\ clients'[a].stopping = "destroyed"
AddsPeer(a) ==
    /\ syncPeersApply(a)
    /\ \E peer \in clients[a].todo \ clients'[a].todo : peer.online

\* C20: Shutdown ordering.  When Stop destroys the interface the heartbeat
\* and peer sync tasks have returned, and no AddPeer is invoked on the
\* DataPlane once Destroy has been called.
ShutdownOrdering ==
    [][\A a \in Agents :
          /\ Destroys(a) => ~TaskRunning(a)
          /\ AddsPeer(a) => clients[a].stopping # "destroyed"]_vars


-----------------------------------------------------------------------------
(* pkg/network: the IPAllocator under every sequence of calls *)

\* ReleaseIP: the address leaves the allocated map; the cursor stays.
ReleaseIP(alloc, ip) == alloc \ {ip}

\* IsAllocated: the address is in the allocated map.
IsAllocated(alloc, ip) == ip \in alloc

\* How many addresses past its start the exploration follows an allocator.
MaxScan == 4

\* The networks allocators are made for: the default 10.100.0.0/16, networks
\* of four, two and one address, a network that ends with the address space,
\* and the whole address space.
DefaultNetwork == [ip |-> <<10, 100, 0, 0>>, ones |-> 16]
WholeSpace == [ip |-> <<0, 0, 0, 0>>, ones |-> 0]

IpamNetworks == {DefaultNetwork,
                 [ip |-> <<10, 100, 0, 0>>, ones |-> 30],
                 [ip |-> <<10, 100, 0, 0>>, ones |-> 31],
                 [ip |-> <<10, 100, 0, 0>>, ones |-> 32],
                 [ip |-> <<255, 255, 255, 252>>, ones |-> 30],
                 WholeSpace}

\* What a caller does with its allocator: whether it ever calls ReleaseIP,
\* and where the exploration picks the allocator up.  "fresh" is the allocator
\* NewIPAllocator returns.  "late" is an allocator over the whole address
\* space after 2^32 - 3 calls of AllocateIP, each followed by ReleaseIP of the
\* address it returned: nothing is allocated and the cursor, which every call
\* moved on by one, stands on 255.255.255.254.
IpamScopes == {[release |-> FALSE, start |-> "fresh"],
               [release |-> TRUE, start |-> "fresh"],
               [release |-> TRUE, start |-> "late"]}

LateCursor == <<255, 255, 255, 254>>

RECURSIVE stepIP(_, _)
stepIP(ip, k) == IF k = 0 THEN ip ELSE stepIP(incrementIP(ip), k - 1)

\* The addresses the exploration lets the cursor stand on, and those it
\* passes to AllocateSpecificIP and ReleaseIP: the former, the broadcast
\* address and the address after it.
Window(net, sc) ==
    {stepIP(IF sc.start = "late" THEN LateCursor ELSE net.ip, k) : k \in 0..MaxScan}

Candidates(net, sc) ==
    Window(net, sc) \cup {BroadcastOf(net), incrementIP(BroadcastOf(net))}

IpamInit ==
    /\ scope \in IpamScopes
    /\ network \in IpamNetworks
    /\ scope.start = "late" => network = WholeSpace
    /\ allocated = NewIPAllocator(network).allocated
    /\ nextIP = IF scope.start = "late" THEN LateCursor
                ELSE NewIPAllocator(network).nextIP
    /\ clients = [a \in Agents |-> NewClient]
    /\ devices = [a \in Agents |-> NoDevice]
    /\ peers = EmptyMap
    /\ peersByKey = EmptyMap
    /\ store = <<>>
    /\ storeTorn = FALSE
    /\ now = 0
    /\ nano = 0
    /\ sameInstant = FALSE
    /\ nextSweep = CleanupInterval
    /\ startedAt = 0

notIpamVars ==
    <<scope, network, registryVars, storeVars, clockVars, mintVars, agentVars>>

CallAllocateIP ==
    /\ nextIP \in Window(network, scope) \/ ~Contains(network, nextIP)
    /\ \E a \in {AllocateIP(network, allocated, nextIP)} :
          /\ allocated' = a.allocated
          /\ nextIP' = a.nextIP
    /\ UNCHANGED notIpamVars

CallAllocateSpecificIP ==
    /\ \E ip \in Candidates(network, scope) :
          allocated' = AllocateSpecificIP(network, allocated, ip).allocated
    /\ UNCHANGED <<nextIP, notIpamVars>>

CallReleaseIP ==
    /\ scope.release
    /\ \E ip \in Candidates(network, scope) :
          allocated' = ReleaseIP(allocated, ip)
    /\ UNCHANGED <<nextIP, notIpamVars>>

IpamNext == CallAllocateIP \/ CallAllocateSpecificIP \/ CallReleaseIP

IpamSpec == IpamInit /\ [][IpamNext]_vars

-----------------------------------------------------------------------------
(* Claims about the IPAllocator *)

\* An address AllocateIP may hand out: inside the network, neither its
\* network address nor its broadcast address.
IsUsable(net, ip) == Contains(net, ip) /\ ip # net.ip /\ ip # BroadcastOf(net)

\* The usable addresses met when counting from one address up to another.
RECURSIVE usableFrom(_, _, _)
usableFrom(net, from, to) ==
    IF from = to \/ ~Contains(net, from) THEN {}
    ELSE (IF IsUsable(net, from) THEN {from} ELSE {})
             \cup usableFrom(net, incrementIP(from), to)

\* The first three addresses of an empty allocator over 10.100.0.0/16.
FirstThree ==
    LET new == NewIPAllocator(DefaultNetwork)
        a1 == AllocateIP(DefaultNetwork, new.allocated, new.nextIP)
        a2 == AllocateIP(DefaultNetwork, a1.allocated, a1.nextIP)
        a3 == AllocateIP(DefaultNetwork, a2.allocated, a2.nextIP)
    IN  <<a1.ip, a2.ip, a3.ip>>

\* C21: in an allocator whose ReleaseIP was never called, a successful
\* AllocateIP returns the lowest usable address that is not allocated, also
\* after calls of AllocateSpecificIP; an empty allocator over 10.100.0.0/16
\* returns 10.100.0.1, 10.100.0.2 and 10.100.0.3 in that order.
LowestFirst ==
    ~scope.release =>
        LET a == AllocateIP(network, allocated, nextIP)
        IN  /\ ~a.err =>
                /\ IsUsable(network, a.ip)
                /\ ~IsAllocated(allocated, a.ip)
                /\ usableFrom(network, incrementIP(network.ip), a.ip) \subseteq allocated
            /\ FirstThree = <<<<10, 100, 0, 1>>, <<10, 100, 0, 2>>, <<10, 100, 0, 3>>>>

\* C21's case: AllocateSpecificIP has reserved the address the cursor stands
\* on and a lower one was handed out, so the next AllocateIP has to pass a
\* reserved address to reach the lowest free one.
SkipsReserved ==
    /\ ~scope.release
    /\ network = DefaultNetwork
    /\ nextIP = <<10, 100, 0, 2>>
    /\ allocated = {<<10, 100, 0, 1>>, <<10, 100, 0, 2>>}
    /\ AllocateIP(network, allocated, nextIP).ip = <<10, 100, 0, 3>>

\* C22: AllocateIP reports that no address is left only when every usable
\* address is allocated, so an address given back by ReleaseIP is handed out
\* again before exhaustion wherever the cursor stands.
ReusesGaps ==
    AllocateIP(network, allocated, nextIP).err =>
        \A ip \in Candidates(network, scope) :
            IsUsable(network, ip) => IsAllocated(allocated, ip)

\* C23: for every network and every sequence of AllocateIP,
\* AllocateSpecificIP and ReleaseIP calls, a successful AllocateIP returns an
\* address inside the network that is neither the network address nor the
\* broadcast address and was not allocated at the time of the call.
NeverUnusable ==
    LET a == AllocateIP(network, allocated, nextIP)
    IN  ~a.err => IsUsable(network, a.ip) /\ ~IsAllocated(allocated, a.ip)

\* C24: AllocateSpecificIP fails and leaves the allocated set as it was when
\* the address is outside the network or already allocated; otherwise it
\* adds exactly that address, IsAllocated reports it, and AllocateIP returns
\* no address that is in the allocated set, so not the reserved one before
\* ReleaseIP has taken it out.
ReserveContract ==
    /\ \A ip \in Candidates(network, scope) :
          LET r == AllocateSpecificIP(network, allocated, ip)
          IN  IF ~Contains(network, ip) \/ IsAllocated(allocated, ip)
              THEN r.err /\ r.allocated = allocated
              ELSE /\ ~r.err
                   /\ r.allocated = allocated \cup {ip}
                   /\ r.allocated # allocated
                   /\ IsAllocated(r.allocated, ip)
    /\ \A ip \in allocated :
          LET a == AllocateIP(network, allocated, nextIP)
          IN  a.err \/ a.ip # ip

\* C24's case: the address under the cursor was reserved (AllocateIP marks
\* only addresses it moves the cursor past), reserving it again is refused,
\* and AllocateIP hands out the other usable address of the /30.
ReservedAhead ==
    /\ network.ones = 30
    /\ IsUsable(network, nextIP)
    /\ IsAllocated(allocated, nextIP)
    /\ AllocateSpecificIP(network, allocated, nextIP).err
    /\ ~AllocateIP(network, allocated, nextIP).err
    /\ AllocateIP(network, allocated, nextIP).ip = incrementIP(nextIP)

-----------------------------------------------------------------------------
(* pkg/server: the PeerStore under every sequence of calls *)

\* LoadPeers: what a process that opens the store reads.
LoadPeers(file, torn) == loadPeersUnlocked(file, torn)

\* DeletePeer: the stored peers without those of the given ID, written back.
DeletePeer(file, torn, peerID) ==
    LET loaded == loadPeersUnlocked(file, torn)
    IN  IF loaded.err THEN [err |-> TRUE, file |-> file]
        ELSE [err |-> FALSE,
              file |-> savePeersUnlocked(
                           SelectSeq(loaded.peers, LAMBDA p : p.id # peerID))]

\* The peers handed to SavePeer: two ids, each with either key, with and
\* without an endpoint, online or not.
StoreIDs == {1, 2}

StorePeers ==
    {[id |-> id,
      public_key |-> PublicKeyToString(k),
      virtual_ip |-> <<10, 100, 0, k>>,
      endpoint |-> e,
      hostname |-> HostnameOf(PublicKeyToString(k)),
      os |-> OSOf(PublicKeyToString(k)),
      allowed_ips |-> IF ExitNodeOf(PublicKeyToString(k))
                      THEN <<HostCIDR(<<10, 100, 0, k>>), DefaultRoute>>
                      ELSE <<HostCIDR(<<10, 100, 0, k>>)>>,
      exit_node |-> ExitNodeOf(PublicKeyToString(k)),
      last_heartbeat |-> 0,
      online |-> on] :
        id \in StoreIDs, k \in {1, 2}, e \in Endpoints, on \in BOOLEAN}

notStoreVars ==
    <<scope, ipamVars, registryVars, clockVars, mintVars, agentVars>>

CallSavePeer ==
    /\ \E peer \in StorePeers :
          store' = SavePeer(store, storeTorn, peer).file
    /\ UNCHANGED <<storeTorn, notStoreVars>>

CallDeletePeer ==
    /\ \E id \in StoreIDs :
          store' = DeletePeer(store, storeTorn, id).file
    /\ UNCHANGED <<storeTorn, notStoreVars>>

\* The process is killed while savePeersUnlocked writes: whatever it had
\* written of the file does not parse.
CrashInWrite ==
    /\ ~storeTorn
    /\ storeTorn' = TRUE
    /\ store' = <<>>
    /\ UNCHANGED notStoreVars

StoreNext == CallSavePeer \/ CallDeletePeer \/ CrashInWrite

StoreSpec == Init /\ [][StoreNext]_vars

-----------------------------------------------------------------------------
(* Claims about the PeerStore *)

\* The stored peers other than those of one id, in file order.
Others(list, id) == SelectSeq(list, LAMBDA p : p.id # id)

\* C25: after SavePeer has returned without error, a process that opens the
\* store loads exactly one record with the peer's id, carrying the saved
\* values, and the other records as they were; with no snapshot LoadPeers
\* returns no record; after DeletePeer has returned without error no record
\* has the id and the others are as they were.
StoreContract ==
    LET before == LoadPeers(store, storeTorn)
    IN  /\ \A peer \in StorePeers :
              LET saved == SavePeer(store, storeTorn, peer)
                  after == LoadPeers(saved.file, FALSE)
              IN  ~saved.err =>
                      /\ ~after.err
                      /\ \E i \in 1..Len(after.peers) :
                            /\ after.peers[i] = peer
                            /\ \A j \in 1..Len(after.peers) :
                                  after.peers[j].id = peer.id => j = i
                      /\ Others(after.peers, peer.id) = Others(before.peers, peer.id)
        /\ \A id \in StoreIDs :
              LET deleted == DeletePeer(store, storeTorn, id)
                  after == LoadPeers(deleted.file, FALSE)
              IN  ~deleted.err =>
                      /\ ~after.err
                      /\ \A j \in 1..Len(after.peers) : after.peers[j].id # id
                      /\ after.peers = Others(before.peers, id)
        /\ store = <<>> /\ ~storeTorn => ~before.err /\ before.peers = <<>>

\* C25's case: two records are stored, the first written without an
\* endpoint, and a save of the first one's id with an endpoint is about to
\* replace it in place.
SavedBesideAnother ==
    /\ ~storeTorn
    /\ Len(store) = 2
    /\ store[1].id = 2 /\ store[2].id = 1
    /\ "endpoint" \notin DOMAIN store[1]
    /\ \E peer \in StorePeers :
          /\ peer.id = 2 /\ peer.endpoint # ""
          /\ Len(SavePeer(store, storeTorn, peer).file) = 2

\* C26: the snapshot file is rewritten atomically, so the file a restarted
\* coordinator reads, also one restarted in the middle of a save, is a
\* complete snapshot: when peers were persisted before, it parses and holds
\* a record for every id the snapshot before that save held.
AtomicSnapshot ==
    [][((Restart \/ RestartTornWrite) /\ store # <<>>) =>
          /\ ~LoadPeers(store', storeTorn').err
          /\ \A i \in 1..Len(store) :
                \E j \in 1..Len(store') : store'[j].id = store[i].id]_vars

-----------------------------------------------------------------------------
(* Claims about the registry and its persistence *)

\* The snapshot an outcome leaves holds the registry's record of the id.
Persisted(out, id) ==
    LET snapshot == LoadPeers(out.store, storeTorn)
    IN  /\ ~snapshot.err
        /\ \E i \in 1..Len(snapshot.peers) : snapshot.peers[i] = out.peers[id]

\* C27: whenever a Register or a Heartbeat is answered success for a peer,
\* the snapshot it leaves holds that peer's record with the values the
\* request gave it, also when the write of the store failed.
PersistBeforeAck ==
    /\ \A req \in RegisterRequests :
          \A out \in handleRegister("POST", TRUE, req) :
              out.resp.success => Persisted(out, out.resp.peer_id)
    /\ \A req \in HeartbeatRequests :
          LET out == handleHeartbeat("POST", TRUE, req)
          IN  out.resp.success => Persisted(out, req.peer_id)

\* A register request with the exit_node flag and the allowed_ips list a
\* sender may put into it.
CarriedLists == {<<>>, <<DefaultRoute>>, <<[ip |-> <<10, 100, 0, 0>>, ones |-> 16]>>}

Carrying(req, exitNode, list) ==
    [f \in (DOMAIN req) \cup {"allowed_ips"} |->
        IF f = "allowed_ips" THEN list
        ELSE IF f = "exit_node" THEN exitNode
        ELSE req[f]]

\* allowed_ips is [virtual_ip/32], followed by 0.0.0.0/0 exactly for an exit
\* node.
AllowedIPsOf(p) ==
    LET host == [ip |-> p.virtual_ip, ones |-> 32]
        default == [ip |-> <<0, 0, 0, 0>>, ones |-> 0]
    IN  IF p.exit_node THEN <<host, default>> ELSE <<host>>

\* C28: every peer of the registry has allowed_ips[0] = virtual_ip/32 and
\* holds 0.0.0.0/0 if and only if exit_node is true, in every reachable state
\* and after every Register, whatever exit_node flag and allowed_ips list the
\* request carries.
AllowedIPsShape ==
    /\ \A id \in DOMAIN peers : peers[id].allowed_ips = AllowedIPsOf(peers[id])
    /\ \A req \in RegisterRequests, x \in BOOLEAN, list \in CarriedLists :
          \A out \in handleRegister("POST", TRUE, Carrying(req, x, list)) :
              \A id \in DOMAIN out.peers :
                  out.peers[id].allowed_ips = AllowedIPsOf(out.peers[id])

\* C28's case: an exit node and a plain peer are registered, and the exit
\* node registers again without the flag, carrying a list of its own.
ExitNodeBesidePlain ==
    /\ \E i, j \in DOMAIN peers :
          /\ peers[i].exit_node /\ Len(peers[i].allowed_ips) = 2
          /\ ~peers[j].exit_node /\ Len(peers[j].allowed_ips) = 1
    /\ \E req \in RegisterRequests :
          /\ KeyExists(req.public_key)
          /\ peers[peersByKey[req.public_key]].exit_node
          /\ \E out \in handleRegister("POST", TRUE,
                                       Carrying(req, FALSE, <<DefaultRoute>>)) :
                out.resp.success

\* C29: every Register that creates a new peer mints an id that no peer of
\* the registry has, whatever the clock reads, so it never replaces or
\* aliases another peer's record.
UniquePeerID ==
    \A req \in {r \in RegisterRequests :
                    ~ParsePublicKey(r.public_key).err /\ ~KeyExists(r.public_key)} :
        \A out \in handleRegister("POST", TRUE, req) :
            out.resp.success =>
                /\ out.resp.peer_id \notin DOMAIN peers
                /\ \A id \in DOMAIN peers : out.peers[id] = peers[id]

-----------------------------------------------------------------------------
(* Claims about the start of an agent *)

\* C30: a Register call that fails (the transport fails, the answer is not
\* 200, or it says success=false) makes Start return the error: the process
\* ends with no interface created and no task started.  Start goes on to
\* set the interface up only with the id the coordinator holds for the
\* agent's key and the address of that record.
RegistrationFatal ==
    [][\A a \in Agents :
          register(a) =>
              \/ /\ clients'[a].pc = "setup"
                 /\ PublicKeyToString(a) \in DOMAIN peersByKey'
                 /\ peersByKey'[PublicKeyToString(a)] = clients'[a].peerID
                 /\ peers'[clients'[a].peerID].virtual_ip = clients'[a].assignedIP
              \/ /\ clients'[a].pc = "exited"
                 /\ devices' = devices
                 /\ ~clients'[a].wgInterface
                 /\ clients'[a].heartbeat = "off"
                 /\ clients'[a].peerSync = "off"]_vars

\* C30's case: the network has no usable address, the Register of either
\* agent was answered success=false and both processes have ended; no device
\* exists and the registry is empty.
RefusedAndExited ==
    /\ \A a \in Agents :
          /\ clients[a].pc = "exited"
          /\ clients[a].peerID = 0
          /\ devices[a].state = "absent"
    /\ Usable(network) = {}
    /\ peers = EmptyMap

-----------------------------------------------------------------------------
(* pkg/client: the goroutines of an agent, a DataPlane call taking time *)

\* How many heartbeat requests that the client gave up on are followed on
\* their way to the coordinator.
MaxStale == 1

\* A client with the AddPeer call its syncPeers has in progress (the peer it
\* was called for, or nothing) and the number of heartbeat requests it gave
\* up on that may still reach the coordinator.
NewTaskClient ==
    [f \in (DOMAIN NewClient) \cup {"adding", "stale"} |->
        IF f = "adding" THEN {} ELSE IF f = "stale" THEN 0 ELSE NewClient[f]]

\* Either agent may receive a signal while the transport works, or one of
\* them while it may fail; the coordinator is followed within its first
\* cleanup interval.
TaskScopes ==
    {[horizon |-> 0, endpoints |-> {""},
      signals |-> Agents, relaunch |-> FALSE, restart |-> FALSE,
      lossy |-> FALSE, ones |-> 30],
     [horizon |-> 0, endpoints |-> {""},
      signals |-> {2}, relaunch |-> FALSE, restart |-> FALSE,
      lossy |-> TRUE, ones |-> 30]}

\* What becomes of an HTTP call of a task: as for Register, or the client's
\* Timeout ends the call while the request is still on its way ("late").
TaskTransport == IF scope.lossy THEN Transport \cup {"late"} ELSE Transport

TaskInit ==
    /\ scope \in TaskScopes
    /\ network = [ip |-> <<10, 100, 0, 0>>, ones |-> scope.ones]
    /\ allocated = NewIPAllocator(network).allocated
    /\ nextIP = NewIPAllocator(network).nextIP
    /\ peers = EmptyMap
    /\ peersByKey = EmptyMap
    /\ store = <<>>
    /\ storeTorn = FALSE
    /\ now = 0
    /\ nano = 0
    /\ sameInstant = FALSE
    /\ nextSweep = CleanupInterval
    /\ startedAt = 0
    /\ clients = [a \in Agents |-> NewTaskClient]
    /\ devices = [a \in Agents |-> NoDevice]

\* syncPeers, the head of one round of its loop: a peer that is not online
\* is skipped, for any other c.wgInterface.AddPeer is called.
AddPeerCall(a) ==
    /\ Alive(a)
    /\ Applying(a)
    /\ clients[a].adding = {}
    /\ \E peer \in clients[a].todo :
           LET rest == clients[a].todo \ {peer}
           IN  clients' = [clients EXCEPT ![a] =
                   IF peer.online THEN [@ EXCEPT !.adding = {peer}]
                   ELSE IF rest = {} THEN Returned(@)
                   ELSE [@ EXCEPT !.todo = rest]]
    /\ UNCHANGED <<serverVars, devices>>

\* AddPeer returns: the device is as the call leaves it and the loop goes
\* on, or syncPeers returns after the last peer.
AddPeerReturn(a) ==
    /\ Alive(a)
    /\ clients[a].adding # {}
    /\ \E peer \in clients[a].adding :
           LET rest == clients[a].todo \ {peer}
           IN  /\ devices' = [devices EXCEPT ![a] = syncPeer(@, peer)]
               /\ clients' = [clients EXCEPT ![a] =
                     IF rest = {} THEN Returned([@ EXCEPT !.adding = {}])
                     ELSE [@ EXCEPT !.adding = {}, !.todo = rest]]
    /\ UNCHANGED serverVars

\* Stop, after close(c.stopChan): c.wgInterface.Destroy is called if the
\* field is read as set.
DestroyCall(a) ==
    /\ Alive(a)
    /\ clients[a].stopping = "closed"
    /\ \E set \in ReadInterface(a) :
           clients' = [clients EXCEPT ![a] =
               [@ EXCEPT !.stopping = IF set THEN "destroying" ELSE "stopped"]]
    /\ UNCHANGED <<serverVars, devices>>

\* Destroy returns: the device is gone.
DestroyReturn(a) ==
    /\ Alive(a)
    /\ clients[a].stopping = "destroying"
    /\ devices' = [devices EXCEPT ![a] = NoDevice]
    /\ clients' = [clients EXCEPT ![a] = [@ EXCEPT !.stopping = "destroyed"]]
    /\ UNCHANGED serverVars

\* heartbeatRoutine on its ticker: sendHeartbeat posts the request.
sendHeartbeatCall(a) ==
    /\ Alive(a)
    /\ clients[a].heartbeat = "ticking"
    /\ clients' = [clients EXCEPT ![a] = [@ EXCEPT !.heartbeat = "calling"]]
    /\ UNCHANGED <<serverVars, devices>>

\* sendRequest returns to sendHeartbeat: with the answer of the coordinator,
\* or with an error (logged) after the request was handled, was dropped, or
\* is still on its way when the Timeout of the http.Client ends the call.
sendHeartbeatReturn(a) ==
    /\ Alive(a)
    /\ clients[a].heartbeat = "calling"
    /\ \E t \in TaskTransport :
           /\ t = "late" => clients[a].stale < MaxStale
           /\ \E out \in (IF t \in {"undelivered", "late"} THEN {Answer(Response(0))}
                          ELSE {handleHeartbeat("POST", TRUE,
                                                [peer_id |-> clients[a].peerID,
                                                 endpoint |-> ""])}) :
                  Apply(out)
           /\ clients' = [clients EXCEPT ![a] =
                 [@ EXCEPT !.heartbeat = "ticking",
                           !.stale = IF t = "late" THEN @ + 1 ELSE @]]
    /\ UNCHANGED devices

\* A heartbeat request the client gave up on reaches the coordinator, whose
\* handler runs whether or not anyone waits for the answer.
staleHeartbeat(a) ==
    /\ clients[a].pc # "idle"
    /\ Alive(a)
    /\ clients[a].stale > 0
    /\ \E out \in {handleHeartbeat("POST", TRUE,
                                   [peer_id |-> clients[a].peerID,
                                    endpoint |-> ""])} :
           Apply(out)
    /\ clients' = [clients EXCEPT ![a] = [@ EXCEPT !.stale = @ - 1]]
    /\ UNCHANGED devices

\* peerSyncRoutine on its ticker: syncPeers sends the GET.
syncPeersCall(a) ==
    /\ Alive(a)
    /\ clients[a].peerSync = "ticking"
    /\ clients' = [clients EXCEPT ![a] = [@ EXCEPT !.peerSync = "getting"]]
    /\ UNCHANGED <<serverVars, devices>>

\* The GET returns to syncPeers: an error or an answer other than 200 ends
\* the call (logged); otherwise the loop starts on the decoded list.
syncPeersReturn(a) ==
    /\ Alive(a)
    /\ clients[a].peerSync = "getting"
    /\ \E t \in TaskTransport :
           \E out \in (IF t \in {"undelivered", "late"} THEN {Answer(Response(0))}
                       ELSE {handlePeerList("GET", clients[a].peerID)}) :
               LET list == Decoded(out.resp.peers)
               IN  /\ Apply(out)
                   /\ clients' = [clients EXCEPT ![a] =
                         IF t # "ok" \/ out.resp.status # 200 \/ list = {}
                         THEN Returned(@)
                         ELSE [@ EXCEPT !.peerSync = "applying",
                                        !.peerList = list, !.todo = list]]
    /\ UNCHANGED devices

TaskStep(a) ==
    \/ register(a)
    \/ Create(a)
    \/ Configure(a)
    \/ syncPeersFetch(a) /\ clients[a].pc = "configured"
    \/ syncPeersCall(a)
    \/ syncPeersReturn(a)
    \/ AddPeerCall(a)
    \/ AddPeerReturn(a)
    \/ sendHeartbeatCall(a)
    \/ sendHeartbeatReturn(a)
    \/ staleHeartbeat(a)
    \/ heartbeatRoutineReturn(a)
    \/ peerSyncRoutineReturn(a)
    \/ StopClose(a)
    \/ DestroyCall(a)
    \/ DestroyReturn(a)
    \/ Exit(a)

TaskNext == \E a \in Agents : TaskStep(a)

TaskSpec == TaskInit /\ [][TaskNext]_vars

\* The signal handler's goroutine is scheduled and Destroy returns; main
\* returns when Start has.  Nothing is assumed of the HTTP calls.
TaskFairness ==
    \A a \in Agents : WF_vars(DestroyCall(a) \/ DestroyReturn(a) \/ Exit(a))

TaskLiveSpec == TaskSpec /\ TaskFairness

-----------------------------------------------------------------------------
(* Claims about the goroutines of an agent *)

\* C31: the DataPlane calls of one agent are serialized: while Stop's
\* Destroy is in progress no AddPeer of a running syncPeers is, and the other
\* way round.
Serialized ==
    \A a \in Agents :
        Alive(a) =>
            ~(clients[a].adding # {} /\ clients[a].stopping = "destroying")

-----------------------------------------------------------------------------
(* pkg/client: syncPeers over the lists a coordinator may answer *)

\* The peers a coordinator may list to agent 1: two online ones (the first an
\* exit node, the second with an endpoint), one offline, and an online one
\* whose key does not parse.
ListedPeer(k, key, endpoint, on) ==
    [id |-> k,
     public_key |-> key,
     virtual_ip |-> <<10, 100, 0, k>>,
     endpoint |-> endpoint,
     hostname |-> HostnameOf(key),
     os |-> OSOf(key),
     allowed_ips |-> IF ExitNodeOf(key)
                     THEN <<HostCIDR(<<10, 100, 0, k>>), DefaultRoute>>
                     ELSE <<HostCIDR(<<10, 100, 0, k>>)>>,
     exit_node |-> ExitNodeOf(key),
     last_heartbeat |-> 0,
     online |-> on]

Answerable ==
    {ListedPeer(2, PublicKeyToString(2), "", TRUE),
     ListedPeer(3, PublicKeyToString(3), "198.51.100.7:51820", TRUE),
     ListedPeer(4, PublicKeyToString(4), "", FALSE),
     ListedPeer(5, EmptyKey, "", TRUE)}

\* Agent 1 after Start has brought it up on an empty mesh: registered, its
\* interface configured, both goroutines on their tickers.  tried holds the
\* peers the running syncPeers has called AddPeer for and passed the
\* PeerConfigs it handed over, failed the peers for which a call of AddPeer
\* has ever returned an error.
SyncingClient ==
    [f \in (DOMAIN NewClient) \cup {"tried", "passed", "failed"} |->
        IF f \in {"tried", "passed", "failed"} THEN {}
        ELSE [NewClient EXCEPT !.pc = "waiting", !.peerID = 1,
                               !.assignedIP = <<10, 100, 0, 1>>,
                               !.wgInterface = TRUE,
                               !.heartbeat = "ticking",
                               !.peerSync = "ticking"][f]]

SyncInit ==
    /\ scope \in {[horizon |-> 0, endpoints |-> {""},
                   signals |-> {}, relaunch |-> FALSE, restart |-> FALSE,
                   lossy |-> FALSE, ones |-> 29]}
    /\ network = [ip |-> <<10, 100, 0, 0>>, ones |-> scope.ones]
    /\ allocated = NewIPAllocator(network).allocated
    /\ nextIP = NewIPAllocator(network).nextIP
    /\ peers = EmptyMap
    /\ peersByKey = EmptyMap
    /\ store = <<>>
    /\ storeTorn = FALSE
    /\ now = 0
    /\ nano = 0
    /\ sameInstant = FALSE
    /\ nextSweep = CleanupInterval
    /\ startedAt = 0
    /\ clients = [a \in Agents |-> IF a = 1 THEN SyncingClient ELSE NewClient]
    /\ devices = [a \in Agents |->
                     IF a = 1 THEN [NoDevice EXCEPT !.state = "configured"]
                     ELSE NoDevice]

\* Interface.AddPeer as the caller sees it: the device as the call leaves it
\* and whether it returned an error.  A key that does not parse is an error;
\* ConfigureDevice may fail for reasons of the host and then changes nothing.
AddPeerResults(dev, cfg) ==
    IF ParseKey(cfg.PublicKey).err \/ dev.state = "absent"
    THEN {[err |-> TRUE, dev |-> dev]}
    ELSE {[err |-> FALSE, dev |-> AddPeer(dev, cfg)], [err |-> TRUE, dev |-> dev]}

AfterAddPeerAborting(c, rest, err) ==
    IF err \/ rest = {} THEN Returned(c) ELSE [c EXCEPT !.todo = rest]

\* syncPeers after AddPeer has returned: an error is logged, and in either
\* case the loop goes on with the peers left; after the last one syncPeers
\* returns.
AfterAddPeer(c, rest, err) ==
    IF rest = {} THEN Returned(c) ELSE [c EXCEPT !.todo = rest]

\* syncPeers run by peerSyncRoutine, the GET: the coordinator answers one of
\* the lists.
SyncFetch ==
    /\ clients[1].peerSync = "ticking"
    /\ \E list \in (SUBSET Answerable) \ {{}} :
           clients' = [clients EXCEPT ![1] =
               [@ EXCEPT !.peerSync = "applying",
                         !.peerList = Decoded(list), !.todo = Decoded(list),
                         !.tried = {}, !.passed = {}]]
    /\ UNCHANGED <<serverVars, devices>>

\* syncPeers, one round of the loop.
SyncRound ==
    /\ clients[1].peerSync = "applying"
    /\ \E peer \in clients[1].todo :
           LET rest == clients[1].todo \ {peer}
           IN  IF ~peer.online
               THEN /\ clients' = [clients EXCEPT ![1] = AfterAddPeer(@, rest, FALSE)]
                    /\ UNCHANGED devices
               ELSE \E r \in AddPeerResults(devices[1], PeerConfig(peer)) :
                        /\ devices' = [devices EXCEPT ![1] = r.dev]
                        /\ clients' = [clients EXCEPT ![1] =
                              AfterAddPeer([@ EXCEPT
                                  !.tried = @ \cup {peer},
                                  !.passed = @ \cup {PeerConfig(peer)},
                                  !.failed = IF r.err THEN @ \cup {peer} ELSE @],
                                  rest, r.err)]
    /\ UNCHANGED serverVars

SyncNext == SyncFetch \/ SyncRound

SyncSpec == SyncInit /\ [][SyncNext]_vars

-----------------------------------------------------------------------------
(* Claims about syncPeers *)

\* C33: an error of AddPeer on one peer skips only that peer.  While syncPeers
\* applies a list, a round of its loop takes exactly one peer off the peers
\* left and whatever AddPeer returned the peer-sync task stays alive; the peer
\* the round called AddPeer for is on the device unless the call failed; and
\* when the cycle ends every online peer of the fetched list has had its
\* AddPeer call, in this cycle as in the one after a failure.
SkipsOnlyFailedPeer ==
    [][clients[1].peerSync = "applying" =>
          /\ clients'[1].peerSync \in {"applying", "ticking"}
          /\ \A p \in clients'[1].tried \ clients[1].tried :
                 \/ p \in clients'[1].failed
                 \/ p.public_key \in DOMAIN devices'[1].peers
          /\ clients'[1].peerSync = "applying" =>
                 /\ clients'[1].peerList = clients[1].peerList
                 /\ clients'[1].todo \subseteq clients[1].todo
                 /\ Cardinality(clients'[1].todo) = Cardinality(clients[1].todo) - 1
          /\ clients'[1].peerSync = "ticking" =>
                 \A p \in clients[1].peerList : p.online => p \in clients'[1].tried]_vars

\* C33's case: a cycle has ended in which AddPeer failed for a peer whose key
\* parses, leaving it off the device, and another peer of the same list was
\* upserted.
OneFailedOthersUpserted ==
    /\ clients[1].peerSync = "ticking"
    /\ \E p \in clients[1].tried \cap clients[1].failed :
           /\ ~ParseKey(p.public_key).err
           /\ p.public_key \notin DOMAIN devices[1].peers
    /\ \E q \in clients[1].tried \ clients[1].failed :
           q.public_key \in DOMAIN devices[1].peers

\* C34: syncPeers calls AddPeer only for the peers of the fetched list whose
\* online flag is true, and hands over public_key, endpoint and allowed_ips as
\* they were received, with a keepalive of 25 seconds; for an exit node the
\* allowed IPs are its /32 and 0.0.0.0/0, in that order.
AddPeerVerbatim ==
    clients[1].peerSync = "applying" =>
        \A cfg \in clients[1].passed :
            \E p \in clients[1].peerList :
                /\ p.online
                /\ p \in clients[1].tried
                /\ cfg = [PublicKey |-> p.public_key, Endpoint |-> p.endpoint,
                          AllowedIPs |-> p.allowed_ips, KeepAlive |-> 25]
                /\ \E q \in Answerable :
                       /\ q.id = p.id /\ q.online
                       /\ cfg.PublicKey = q.public_key
                       /\ cfg.Endpoint = q.endpoint
                       /\ cfg.AllowedIPs = q.allowed_ips
                /\ p.exit_node =>
                       cfg.AllowedIPs = <<[ip |-> p.virtual_ip, ones |-> 32],
                                          [ip |-> <<0, 0, 0, 0>>, ones |-> 0]>>

\* C34's case: of a list with an offline peer, AddPeer has been called for
\* the exit node and for the peer with an endpoint, and not for the offline
\* one.
ExitNodeHandedOver ==
    /\ clients[1].peerSync = "applying"
    /\ \E p \in clients[1].peerList : ~p.online /\ p \notin clients[1].todo
    /\ \E cfg \in clients[1].passed : Len(cfg.AllowedIPs) = 2
    /\ \E cfg \in clients[1].passed : cfg.Endpoint # ""

-----------------------------------------------------------------------------
(* Claims about the requests of one agent *)

\* The heartbeat requests of agent a that can still reach the coordinator:
\* the one sendHeartbeat waits for and those it gave up on.
Outstanding(a) ==
    (IF clients[a].heartbeat = "calling" THEN 1 ELSE 0) + clients[a].stale

\* C35: the requests of one agent are causally ordered.  At most one of its
\* heartbeat requests is outstanding at any time, a request whose call timed
\* out counting for as long as it can still reach the coordinator (so the
\* coordinator handles them in the order they were issued), and none is
\* outstanding before its Register has been answered.
OneHeartbeatOutstanding ==
    \A a \in Agents :
        Alive(a) =>
            /\ Outstanding(a) <= 1
            /\ Outstanding(a) > 0 => clients[a].peerID # 0

-----------------------------------------------------------------------------
(* Claims about the registry of one incarnation *)

\* C36: within one incarnation of the coordinator no Register, Heartbeat,
\* peer list or sweeper step removes a peer from the registry, and a peer's
\* id, public_key and virtual_ip stay what they were when it was created.
NeverRemovedNorRenamed ==
    [][ServingStep =>
          \A id \in DOMAIN peers :
              /\ id \in DOMAIN peers'
              /\ peers'[id].id = peers[id].id
              /\ peers'[id].public_key = peers[id].public_key
              /\ peers'[id].virtual_ip = peers[id].virtual_ip]_vars

-----------------------------------------------------------------------------
(* pkg/server: NewServer over the snapshots it may find *)

\* The addresses a stored peer may carry: two of the network and one outside
\* it (a snapshot written under another --network).
SnapshotIPs == {<<10, 100, 0, 1>>, <<10, 100, 0, 2>>, <<10, 200, 0, 1>>}

\* The peers a snapshot may hold: peer id carries the key of agent id.
SnapshotPeers ==
    {MarshalPeer([id |-> id,
                  public_key |-> PublicKeyToString(id),
                  virtual_ip |-> ip,
                  endpoint |-> "",
                  hostname |-> HostnameOf(PublicKeyToString(id)),
                  os |-> OSOf(PublicKeyToString(id)),
                  allowed_ips |-> <<HostCIDR(ip)>>,
                  exit_node |-> FALSE,
                  last_heartbeat |-> 0,
                  online |-> TRUE]) :
        id \in 1..3, ip \in SnapshotIPs}

\* The snapshots: up to three peers, no id twice.
Snapshots ==
    {s \in UNION {[1..n -> SnapshotPeers] : n \in 0..3} :
        \A i, j \in DOMAIN s : s[i].id = s[j].id => i = j}

\* NewServer has made its maps and its allocator and is about to load the
\* snapshot.
LoadInit ==
    /\ scope \in {[horizon |-> 0, endpoints |-> {""}]}
    /\ clients = [a \in Agents |-> NewClient]
    /\ devices = [a \in Agents |-> NoDevice]
    /\ network = [ip |-> <<10, 100, 0, 0>>, ones |-> 29]
    /\ allocated = NewIPAllocator(network).allocated
    /\ nextIP = NewIPAllocator(network).nextIP
    /\ peers = EmptyMap
    /\ peersByKey = EmptyMap
    /\ store \in Snapshots
    /\ storeTorn = FALSE
    /\ now = 0
    /\ nano = 0
    /\ sameInstant = FALSE
    /\ nextSweep = CleanupInterval
    /\ startedAt = 0

LoadNext == Restart

LoadSpec == LoadInit /\ [][LoadNext]_vars

-----------------------------------------------------------------------------
(* Claims about NewServer *)

\* The stored peer at position i cannot have its address marked: the address
\* is outside the network, or a peer before it in the snapshot has it.
Conflicting(file, i) ==
    \/ ~Contains(network, file[i].virtual_ip)
    \/ \E j \in 1..(i - 1) : file[j].virtual_ip = file[i].virtual_ip

\* C37: NewServer on a snapshot holding a peer whose virtual_ip cannot be
\* marked goes on loading.  Every stored peer is in the registry afterwards,
\* the conflicting one included, under its id and under its key; the address
\* of every peer that does not conflict is allocated; and the allocator holds
\* nothing for a conflicting peer beyond what the others hold.
LoadsPastConflict ==
    [][Restart =>
          /\ DOMAIN peers' = {store[i].id : i \in DOMAIN store}
          /\ \A i \in DOMAIN store :
                 /\ peers'[store[i].id] = UnmarshalPeer(store[i])
                 /\ peersByKey'[store[i].public_key] = store[i].id
                 /\ ~Conflicting(store, i) => store[i].virtual_ip \in allocated'
          /\ allocated' = {store[i].virtual_ip :
                              i \in {j \in DOMAIN store : ~Conflicting(store, j)}}]_vars

\* C37's case: the registry loaded holds three peers, the first of the
\* snapshot with an address of the network, the second with the same address,
\* the third with an address outside the network; only one address is
\* allocated.
LoadedWithConflicts ==
    /\ Len(store) = 3 /\ Cardinality(DOMAIN peers) = 3
    /\ ~Conflicting(store, 1)
    /\ store[2].virtual_ip = store[1].virtual_ip
    /\ ~Contains(network, store[3].virtual_ip)
    /\ allocated = {store[1].virtual_ip}

\* C38: registry and allocator agree.  In every state reached from an empty
\* store or from a store the coordinator wrote itself, by Register, Heartbeat
\* and sweeper steps and by restarts, the allocated set is exactly the set of
\* the virtual_ip values of the peers in the registry.
AllocatedIsRegistered ==
    allocated = AddressesHeld

-----------------------------------------------------------------------------
(* Claims about re-registration *)

\* The Register requests that may carry key: any hostname, os, endpoint and
\* exit_node.
Reregistering(key) ==
    [public_key : {key}, hostname : {"alpha", "beta"}, os : {"linux", "windows"},
     endpoint : Endpoints, exit_node : BOOLEAN]

\* C39: a Register carrying a public key that is registered overwrites the
\* record's hostname, os and endpoint with those of the request (an empty
\* endpoint clears the stored one), sets last_heartbeat to the clock and
\* online to true, and leaves exit_node and allowed_ips as they were whatever
\* exit_node the request carries; it answers the address the record has and
\* allocates none; no other record changes.
ReregistrationFrame ==
    \A key \in DOMAIN peersByKey :
        \A req \in Reregistering(key) :
            LET outs == handleRegister("POST", TRUE, req)
                id   == peersByKey[key]
            IN  /\ outs # {}
                /\ \A out \in outs :
                       /\ out.resp.success
                       /\ out.resp.assigned_ip = peers[id].virtual_ip
                       /\ out.resp.peer_id = id
                       /\ DOMAIN out.peers = DOMAIN peers
                       /\ out.peers[id] =
                              [id |-> peers[id].id,
                               public_key |-> peers[id].public_key,
                               virtual_ip |-> peers[id].virtual_ip,
                               endpoint |-> req.endpoint,
                               hostname |-> req.hostname,
                               os |-> req.os,
                               allowed_ips |-> peers[id].allowed_ips,
                               exit_node |-> peers[id].exit_node,
                               last_heartbeat |-> now,
                               online |-> TRUE]
                       /\ \A other \in (DOMAIN peers) \ {id} :
                              out.peers[other] = peers[other]
                       /\ out.peersByKey = peersByKey
                       /\ out.allocated = allocated
                       /\ out.nextIP = nextIP

\* C39's case: the registry holds an exit node with a stored endpoint, at a
\* clock reading later than its last heartbeat, and a plain peer beside it:
\* a re-registration of the exit node's key as a plain peer with no endpoint
\* differs from the record in each of the fields.
ExitNodeWithEndpoint ==
    \E id \in DOMAIN peers :
        /\ peers[id].exit_node /\ peers[id].endpoint # ""
        /\ id \in {peersByKey[k] : k \in DOMAIN peersByKey}
        /\ peers[id].last_heartbeat < now
        /\ \E other \in (DOMAIN peers) \ {id} : ~peers[other].exit_node

-----------------------------------------------------------------------------
(* Claims about the interface of an agent *)

\* C40: no interface is leaked.  An interface made by Create is destroyed
\* once Stop has been called or Start has returned an error; as nothing can
\* destroy it after the process has ended, the host of an agent whose process
\* has ended has no interface left.
NoInterfaceLeaked ==
    \A a \in Agents : ~Alive(a) => devices[a].state = "absent"

====
